---------------------------- MODULE Spec2Model ----------------------------
(***************************************************************************)
(* Lead-management dashboard (src/src/app/page.tsx): the Dashboard         *)
(* component's state, its derivation pipeline (filter, sort, paginate,     *)
(* status tiles) and its handlers, with the remote store they talk to.     *)
(*                                                                         *)
(* Strings that the code inspects character by character (name, title,     *)
(* company_name, industry, searchQuery) are sequences of UTF-16 code       *)
(* units.  A nullable or optional field is a sequence of length <= 1:      *)
(* None is null/undefined, Some(x) is the value x.  Contact ids are        *)
(* opaque; the model uses positive integers.                               *)
(***************************************************************************)
EXTENDS Integers, Sequences, FiniteSets, TLC

VARIABLES
    allContacts,     \* useState<Contact[]>        page.tsx:24
    loading,         \* useState(true)             page.tsx:25
    statusFilter,    \* page.tsx:26
    assigneeFilter,  \* page.tsx:27
    searchQuery,     \* page.tsx:28
    currentPage,     \* page.tsx:29
    selectedIds,     \* page.tsx:32
    outreachFilter,  \* page.tsx:33
    sizeFilter,      \* page.tsx:34
    industryFilter,  \* page.tsx:35
    sortField,       \* page.tsx:36
    sortDirection,   \* page.tsx:37
    variant,         \* the state of the server-filtered dashboard, part_000:11-14
    remote,          \* the rows of the remote store (linkedin_contacts / the summary view)
    fetches,         \* fetchContacts calls whose await has not resumed yet
    writes,          \* update calls whose await has not resumed yet
    today,           \* the UTC calendar date, as a day number
    expandedId,      \* useState<string | null>(null)   page.tsx:30
    copiedId,        \* useState<string | null>(null)   page.tsx:31
    download,        \* the file last handed to the browser by exportSelected
    clips,           \* clipboard writes whose await has not resumed yet
    timers,          \* pending setTimeout callbacks of copyNoteContext, oldest first
    issued           \* how many store calls the user has triggered after mount

vars == <<allContacts, loading, statusFilter, assigneeFilter, searchQuery,
          currentPage, selectedIds, outreachFilter, sizeFilter, industryFilter,
          sortField, sortDirection, remote, fetches, writes, today,
          expandedId, copiedId, download, clips, timers>>

filterVars == <<statusFilter, assigneeFilter, outreachFilter, sizeFilter,
                industryFilter, searchQuery>>

sortVars == <<sortField, sortDirection>>

asyncVars == <<remote, fetches, writes, today>>

\* What the row click and the copy and export buttons write.
uiVars == <<expandedId, copiedId, download, clips, timers>>

allVars == <<vars, issued, variant>>

-----------------------------------------------------------------------------
(* Optional values and strings *)

None == <<>>

Some(x) == <<x>>

\* JavaScript truthiness of an optional string: null, undefined and '' are falsy.
TruthyStr(o) == o # None /\ o[1] # <<>>

\* o || '' for an optional string.
OrEmpty(o) == IF TruthyStr(o) THEN o[1] ELSE <<>>

\* o || 0 for an optional number.
OrZero(o) == IF o # None /\ o[1] # 0 THEN o[1] ELSE 0

\* String.prototype.toLowerCase converts the code points of the string by the
\* Unicode default case conversion (locale-insensitive, with the context rule
\* for capital sigma). The tables below are those of Unicode 17, the version
\* of the engine the component was run on.

\* The code points with a one-to-one lower case mapping, in runs
\* <<first, last, distance to the lower case, step>>.
LowerRuns ==
    <<
       <<65, 90, 32, 1>>, <<192, 214, 32, 1>>, <<216, 222, 32, 1>>, <<256, 302, 1, 2>>,
       <<306, 310, 1, 2>>, <<313, 327, 1, 2>>, <<330, 374, 1, 2>>, <<376, 376, -121, 1>>,
       <<377, 381, 1, 2>>, <<385, 385, 210, 1>>, <<386, 388, 1, 2>>, <<390, 390, 206, 1>>,
       <<391, 391, 1, 1>>, <<393, 394, 205, 1>>, <<395, 395, 1, 1>>, <<398, 398, 79, 1>>,
       <<399, 399, 202, 1>>, <<400, 400, 203, 1>>, <<401, 401, 1, 1>>, <<403, 403, 205, 1>>,
       <<404, 404, 207, 1>>, <<406, 406, 211, 1>>, <<407, 407, 209, 1>>, <<408, 408, 1, 1>>,
       <<412, 412, 211, 1>>, <<413, 413, 213, 1>>, <<415, 415, 214, 1>>, <<416, 420, 1, 2>>,
       <<422, 422, 218, 1>>, <<423, 423, 1, 1>>, <<425, 425, 218, 1>>, <<428, 428, 1, 1>>,
       <<430, 430, 218, 1>>, <<431, 431, 1, 1>>, <<433, 434, 217, 1>>, <<435, 437, 1, 2>>,
       <<439, 439, 219, 1>>, <<440, 440, 1, 1>>, <<444, 444, 1, 1>>, <<452, 452, 2, 1>>,
       <<453, 453, 1, 1>>, <<455, 455, 2, 1>>, <<456, 456, 1, 1>>, <<458, 458, 2, 1>>,
       <<459, 475, 1, 2>>, <<478, 494, 1, 2>>, <<497, 497, 2, 1>>, <<498, 500, 1, 2>>,
       <<502, 502, -97, 1>>, <<503, 503, -56, 1>>, <<504, 542, 1, 2>>, <<544, 544, -130, 1>>,
       <<546, 562, 1, 2>>, <<570, 570, 10795, 1>>, <<571, 571, 1, 1>>, <<573, 573, -163, 1>>,
       <<574, 574, 10792, 1>>, <<577, 577, 1, 1>>, <<579, 579, -195, 1>>, <<580, 580, 69, 1>>,
       <<581, 581, 71, 1>>, <<582, 590, 1, 2>>, <<880, 882, 1, 2>>, <<886, 886, 1, 1>>,
       <<895, 895, 116, 1>>, <<902, 902, 38, 1>>, <<904, 906, 37, 1>>, <<908, 908, 64, 1>>,
       <<910, 911, 63, 1>>, <<913, 929, 32, 1>>, <<931, 939, 32, 1>>, <<975, 975, 8, 1>>,
       <<984, 1006, 1, 2>>, <<1012, 1012, -60, 1>>, <<1015, 1015, 1, 1>>, <<1017, 1017, -7, 1>>,
       <<1018, 1018, 1, 1>>, <<1021, 1023, -130, 1>>, <<1024, 1039, 80, 1>>, <<1040, 1071, 32, 1>>,
       <<1120, 1152, 1, 2>>, <<1162, 1214, 1, 2>>, <<1216, 1216, 15, 1>>, <<1217, 1229, 1, 2>>,
       <<1232, 1326, 1, 2>>, <<1329, 1366, 48, 1>>, <<4256, 4293, 7264, 1>>, <<4295, 4295, 7264, 1>>,
       <<4301, 4301, 7264, 1>>, <<5024, 5103, 38864, 1>>, <<5104, 5109, 8, 1>>, <<7305, 7305, 1, 1>>,
       <<7312, 7354, -3008, 1>>, <<7357, 7359, -3008, 1>>, <<7680, 7828, 1, 2>>, <<7838, 7838, -7615, 1>>,
       <<7840, 7934, 1, 2>>, <<7944, 7951, -8, 1>>, <<7960, 7965, -8, 1>>, <<7976, 7983, -8, 1>>,
       <<7992, 7999, -8, 1>>, <<8008, 8013, -8, 1>>, <<8025, 8031, -8, 2>>, <<8040, 8047, -8, 1>>,
       <<8072, 8079, -8, 1>>, <<8088, 8095, -8, 1>>, <<8104, 8111, -8, 1>>, <<8120, 8121, -8, 1>>,
       <<8122, 8123, -74, 1>>, <<8124, 8124, -9, 1>>, <<8136, 8139, -86, 1>>, <<8140, 8140, -9, 1>>,
       <<8152, 8153, -8, 1>>, <<8154, 8155, -100, 1>>, <<8168, 8169, -8, 1>>, <<8170, 8171, -112, 1>>,
       <<8172, 8172, -7, 1>>, <<8184, 8185, -128, 1>>, <<8186, 8187, -126, 1>>, <<8188, 8188, -9, 1>>,
       <<8486, 8486, -7517, 1>>, <<8490, 8490, -8383, 1>>, <<8491, 8491, -8262, 1>>, <<8498, 8498, 28, 1>>,
       <<8544, 8559, 16, 1>>, <<8579, 8579, 1, 1>>, <<9398, 9423, 26, 1>>, <<11264, 11311, 48, 1>>,
       <<11360, 11360, 1, 1>>, <<11362, 11362, -10743, 1>>, <<11363, 11363, -3814, 1>>, <<11364, 11364, -10727, 1>>,
       <<11367, 11371, 1, 2>>, <<11373, 11373, -10780, 1>>, <<11374, 11374, -10749, 1>>, <<11375, 11375, -10783, 1>>,
       <<11376, 11376, -10782, 1>>, <<11378, 11378, 1, 1>>, <<11381, 11381, 1, 1>>, <<11390, 11391, -10815, 1>>,
       <<11392, 11490, 1, 2>>, <<11499, 11501, 1, 2>>, <<11506, 11506, 1, 1>>, <<42560, 42604, 1, 2>>,
       <<42624, 42650, 1, 2>>, <<42786, 42798, 1, 2>>, <<42802, 42862, 1, 2>>, <<42873, 42875, 1, 2>>,
       <<42877, 42877, -35332, 1>>, <<42878, 42886, 1, 2>>, <<42891, 42891, 1, 1>>, <<42893, 42893, -42280, 1>>,
       <<42896, 42898, 1, 2>>, <<42902, 42920, 1, 2>>, <<42922, 42922, -42308, 1>>, <<42923, 42923, -42319, 1>>,
       <<42924, 42924, -42315, 1>>, <<42925, 42925, -42305, 1>>, <<42926, 42926, -42308, 1>>, <<42928, 42928, -42258, 1>>,
       <<42929, 42929, -42282, 1>>, <<42930, 42930, -42261, 1>>, <<42931, 42931, 928, 1>>, <<42932, 42946, 1, 2>>,
       <<42948, 42948, -48, 1>>, <<42949, 42949, -42307, 1>>, <<42950, 42950, -35384, 1>>, <<42951, 42953, 1, 2>>,
       <<42955, 42955, -42343, 1>>, <<42956, 42970, 1, 2>>, <<42972, 42972, -42561, 1>>, <<42997, 42997, 1, 1>>,
       <<65313, 65338, 32, 1>>, <<66560, 66599, 40, 1>>, <<66736, 66771, 40, 1>>, <<66928, 66938, 39, 1>>,
       <<66940, 66954, 39, 1>>, <<66956, 66962, 39, 1>>, <<66964, 66965, 39, 1>>, <<68736, 68786, 64, 1>>,
       <<68944, 68965, 32, 1>>, <<71840, 71871, 32, 1>>, <<93760, 93791, 32, 1>>, <<93856, 93880, 27, 1>>,
       <<125184, 125217, 34, 1>>
    >>

\* The Case_Ignorable code points, in runs <<first, last>>.
CaseIgnorableRuns ==
    <<
       <<39, 39>>, <<46, 46>>, <<58, 58>>, <<94, 94>>, <<96, 96>>, <<168, 168>>,
       <<173, 173>>, <<175, 175>>, <<180, 180>>, <<183, 184>>, <<688, 879>>, <<884, 885>>,
       <<890, 890>>, <<900, 901>>, <<903, 903>>, <<1155, 1161>>, <<1369, 1369>>, <<1375, 1375>>,
       <<1425, 1469>>, <<1471, 1471>>, <<1473, 1474>>, <<1476, 1477>>, <<1479, 1479>>, <<1524, 1524>>,
       <<1536, 1541>>, <<1552, 1562>>, <<1564, 1564>>, <<1600, 1600>>, <<1611, 1631>>, <<1648, 1648>>,
       <<1750, 1757>>, <<1759, 1768>>, <<1770, 1773>>, <<1807, 1807>>, <<1809, 1809>>, <<1840, 1866>>,
       <<1958, 1968>>, <<2027, 2037>>, <<2042, 2042>>, <<2045, 2045>>, <<2070, 2093>>, <<2137, 2139>>,
       <<2184, 2184>>, <<2192, 2193>>, <<2199, 2207>>, <<2249, 2306>>, <<2362, 2362>>, <<2364, 2364>>,
       <<2369, 2376>>, <<2381, 2381>>, <<2385, 2391>>, <<2402, 2403>>, <<2417, 2417>>, <<2433, 2433>>,
       <<2492, 2492>>, <<2497, 2500>>, <<2509, 2509>>, <<2530, 2531>>, <<2558, 2558>>, <<2561, 2562>>,
       <<2620, 2620>>, <<2625, 2626>>, <<2631, 2632>>, <<2635, 2637>>, <<2641, 2641>>, <<2672, 2673>>,
       <<2677, 2677>>, <<2689, 2690>>, <<2748, 2748>>, <<2753, 2757>>, <<2759, 2760>>, <<2765, 2765>>,
       <<2786, 2787>>, <<2810, 2815>>, <<2817, 2817>>, <<2876, 2876>>, <<2879, 2879>>, <<2881, 2884>>,
       <<2893, 2893>>, <<2901, 2902>>, <<2914, 2915>>, <<2946, 2946>>, <<3008, 3008>>, <<3021, 3021>>,
       <<3072, 3072>>, <<3076, 3076>>, <<3132, 3132>>, <<3134, 3136>>, <<3142, 3144>>, <<3146, 3149>>,
       <<3157, 3158>>, <<3170, 3171>>, <<3201, 3201>>, <<3260, 3260>>, <<3263, 3263>>, <<3270, 3270>>,
       <<3276, 3277>>, <<3298, 3299>>, <<3328, 3329>>, <<3387, 3388>>, <<3393, 3396>>, <<3405, 3405>>,
       <<3426, 3427>>, <<3457, 3457>>, <<3530, 3530>>, <<3538, 3540>>, <<3542, 3542>>, <<3633, 3633>>,
       <<3636, 3642>>, <<3654, 3662>>, <<3761, 3761>>, <<3764, 3772>>, <<3782, 3782>>, <<3784, 3790>>,
       <<3864, 3865>>, <<3893, 3893>>, <<3895, 3895>>, <<3897, 3897>>, <<3953, 3966>>, <<3968, 3972>>,
       <<3974, 3975>>, <<3981, 3991>>, <<3993, 4028>>, <<4038, 4038>>, <<4141, 4144>>, <<4146, 4151>>,
       <<4153, 4154>>, <<4157, 4158>>, <<4184, 4185>>, <<4190, 4192>>, <<4209, 4212>>, <<4226, 4226>>,
       <<4229, 4230>>, <<4237, 4237>>, <<4253, 4253>>, <<4348, 4348>>, <<4957, 4959>>, <<5906, 5908>>,
       <<5938, 5939>>, <<5970, 5971>>, <<6002, 6003>>, <<6068, 6069>>, <<6071, 6077>>, <<6086, 6086>>,
       <<6089, 6099>>, <<6103, 6103>>, <<6109, 6109>>, <<6155, 6159>>, <<6211, 6211>>, <<6277, 6278>>,
       <<6313, 6313>>, <<6432, 6434>>, <<6439, 6440>>, <<6450, 6450>>, <<6457, 6459>>, <<6679, 6680>>,
       <<6683, 6683>>, <<6742, 6742>>, <<6744, 6750>>, <<6752, 6752>>, <<6754, 6754>>, <<6757, 6764>>,
       <<6771, 6780>>, <<6783, 6783>>, <<6823, 6823>>, <<6832, 6877>>, <<6880, 6891>>, <<6912, 6915>>,
       <<6964, 6964>>, <<6966, 6970>>, <<6972, 6972>>, <<6978, 6978>>, <<7019, 7027>>, <<7040, 7041>>,
       <<7074, 7077>>, <<7080, 7081>>, <<7083, 7085>>, <<7142, 7142>>, <<7144, 7145>>, <<7149, 7149>>,
       <<7151, 7153>>, <<7212, 7219>>, <<7222, 7223>>, <<7288, 7293>>, <<7376, 7378>>, <<7380, 7392>>,
       <<7394, 7400>>, <<7405, 7405>>, <<7412, 7412>>, <<7416, 7417>>, <<7468, 7530>>, <<7544, 7544>>,
       <<7579, 7679>>, <<8125, 8125>>, <<8127, 8129>>, <<8141, 8143>>, <<8157, 8159>>, <<8173, 8175>>,
       <<8189, 8190>>, <<8203, 8207>>, <<8216, 8217>>, <<8228, 8228>>, <<8231, 8231>>, <<8234, 8238>>,
       <<8288, 8292>>, <<8294, 8303>>, <<8305, 8305>>, <<8319, 8319>>, <<8336, 8348>>, <<8400, 8432>>,
       <<11388, 11389>>, <<11503, 11505>>, <<11631, 11631>>, <<11647, 11647>>, <<11744, 11775>>, <<11823, 11823>>,
       <<12293, 12293>>, <<12330, 12333>>, <<12337, 12341>>, <<12347, 12347>>, <<12441, 12446>>, <<12540, 12542>>,
       <<40981, 40981>>, <<42232, 42237>>, <<42508, 42508>>, <<42607, 42610>>, <<42612, 42621>>, <<42623, 42623>>,
       <<42652, 42655>>, <<42736, 42737>>, <<42752, 42785>>, <<42864, 42864>>, <<42888, 42890>>, <<42993, 42996>>,
       <<43000, 43001>>, <<43010, 43010>>, <<43014, 43014>>, <<43019, 43019>>, <<43045, 43046>>, <<43052, 43052>>,
       <<43204, 43205>>, <<43232, 43249>>, <<43263, 43263>>, <<43302, 43309>>, <<43335, 43345>>, <<43392, 43394>>,
       <<43443, 43443>>, <<43446, 43449>>, <<43452, 43453>>, <<43471, 43471>>, <<43493, 43494>>, <<43561, 43566>>,
       <<43569, 43570>>, <<43573, 43574>>, <<43587, 43587>>, <<43596, 43596>>, <<43632, 43632>>, <<43644, 43644>>,
       <<43696, 43696>>, <<43698, 43700>>, <<43703, 43704>>, <<43710, 43711>>, <<43713, 43713>>, <<43741, 43741>>,
       <<43756, 43757>>, <<43763, 43764>>, <<43766, 43766>>, <<43867, 43871>>, <<43881, 43883>>, <<44005, 44005>>,
       <<44008, 44008>>, <<44013, 44013>>, <<64286, 64286>>, <<64434, 64450>>, <<65024, 65039>>, <<65043, 65043>>,
       <<65056, 65071>>, <<65106, 65106>>, <<65109, 65109>>, <<65279, 65279>>, <<65287, 65287>>, <<65294, 65294>>,
       <<65306, 65306>>, <<65342, 65342>>, <<65344, 65344>>, <<65392, 65392>>, <<65438, 65439>>, <<65507, 65507>>,
       <<65529, 65531>>, <<66045, 66045>>, <<66272, 66272>>, <<66422, 66426>>, <<67456, 67461>>, <<67463, 67504>>,
       <<67506, 67514>>, <<68097, 68099>>, <<68101, 68102>>, <<68108, 68111>>, <<68152, 68154>>, <<68159, 68159>>,
       <<68325, 68326>>, <<68900, 68903>>, <<68942, 68942>>, <<68969, 68973>>, <<68975, 68975>>, <<69291, 69292>>,
       <<69317, 69317>>, <<69370, 69375>>, <<69446, 69456>>, <<69506, 69509>>, <<69633, 69633>>, <<69688, 69702>>,
       <<69744, 69744>>, <<69747, 69748>>, <<69759, 69761>>, <<69811, 69814>>, <<69817, 69818>>, <<69821, 69821>>,
       <<69826, 69826>>, <<69837, 69837>>, <<69888, 69890>>, <<69927, 69931>>, <<69933, 69940>>, <<70003, 70003>>,
       <<70016, 70017>>, <<70070, 70078>>, <<70089, 70092>>, <<70095, 70095>>, <<70191, 70193>>, <<70196, 70196>>,
       <<70198, 70199>>, <<70206, 70206>>, <<70209, 70209>>, <<70367, 70367>>, <<70371, 70378>>, <<70400, 70401>>,
       <<70459, 70460>>, <<70464, 70464>>, <<70502, 70508>>, <<70512, 70516>>, <<70587, 70592>>, <<70606, 70606>>,
       <<70608, 70608>>, <<70610, 70610>>, <<70625, 70626>>, <<70712, 70719>>, <<70722, 70724>>, <<70726, 70726>>,
       <<70750, 70750>>, <<70835, 70840>>, <<70842, 70842>>, <<70847, 70848>>, <<70850, 70851>>, <<71090, 71093>>,
       <<71100, 71101>>, <<71103, 71104>>, <<71132, 71133>>, <<71219, 71226>>, <<71229, 71229>>, <<71231, 71232>>,
       <<71339, 71339>>, <<71341, 71341>>, <<71344, 71349>>, <<71351, 71351>>, <<71453, 71453>>, <<71455, 71455>>,
       <<71458, 71461>>, <<71463, 71467>>, <<71727, 71735>>, <<71737, 71738>>, <<71995, 71996>>, <<71998, 71998>>,
       <<72003, 72003>>, <<72148, 72151>>, <<72154, 72155>>, <<72160, 72160>>, <<72193, 72202>>, <<72243, 72248>>,
       <<72251, 72254>>, <<72263, 72263>>, <<72273, 72278>>, <<72281, 72283>>, <<72330, 72342>>, <<72344, 72345>>,
       <<72544, 72544>>, <<72546, 72548>>, <<72550, 72550>>, <<72752, 72758>>, <<72760, 72765>>, <<72767, 72767>>,
       <<72850, 72871>>, <<72874, 72880>>, <<72882, 72883>>, <<72885, 72886>>, <<73009, 73014>>, <<73018, 73018>>,
       <<73020, 73021>>, <<73023, 73029>>, <<73031, 73031>>, <<73104, 73105>>, <<73109, 73109>>, <<73111, 73111>>,
       <<73177, 73177>>, <<73459, 73460>>, <<73472, 73473>>, <<73526, 73530>>, <<73536, 73536>>, <<73538, 73538>>,
       <<73562, 73562>>, <<78896, 78912>>, <<78919, 78933>>, <<90398, 90409>>, <<90413, 90415>>, <<92912, 92916>>,
       <<92976, 92982>>, <<92992, 92995>>, <<93504, 93506>>, <<93547, 93548>>, <<94031, 94031>>, <<94095, 94111>>,
       <<94176, 94177>>, <<94179, 94180>>, <<94194, 94195>>, <<110576, 110579>>, <<110581, 110587>>, <<110589, 110590>>,
       <<113821, 113822>>, <<113824, 113827>>, <<118528, 118573>>, <<118576, 118598>>, <<119143, 119145>>, <<119155, 119170>>,
       <<119173, 119179>>, <<119210, 119213>>, <<119362, 119364>>, <<121344, 121398>>, <<121403, 121452>>, <<121461, 121461>>,
       <<121476, 121476>>, <<121499, 121503>>, <<121505, 121519>>, <<122880, 122886>>, <<122888, 122904>>, <<122907, 122913>>,
       <<122915, 122916>>, <<122918, 122922>>, <<122928, 122989>>, <<123023, 123023>>, <<123184, 123197>>, <<123566, 123566>>,
       <<123628, 123631>>, <<124139, 124143>>, <<124398, 124399>>, <<124643, 124643>>, <<124646, 124646>>, <<124654, 124655>>,
       <<124661, 124661>>, <<124671, 124671>>, <<125136, 125142>>, <<125252, 125259>>, <<127995, 127999>>, <<917505, 917505>>,
       <<917536, 917631>>, <<917760, 917999>>
    >>

\* The Cased code points that are not Case_Ignorable, in runs <<first, last>>.
CasedRuns ==
    <<
       <<65, 90>>, <<97, 122>>, <<170, 170>>, <<181, 181>>, <<186, 186>>, <<192, 214>>,
       <<216, 246>>, <<248, 442>>, <<444, 447>>, <<452, 659>>, <<662, 687>>, <<880, 883>>,
       <<886, 887>>, <<891, 893>>, <<895, 895>>, <<902, 902>>, <<904, 906>>, <<908, 908>>,
       <<910, 929>>, <<931, 1013>>, <<1015, 1153>>, <<1162, 1327>>, <<1329, 1366>>, <<1376, 1416>>,
       <<4256, 4293>>, <<4295, 4295>>, <<4301, 4301>>, <<4304, 4346>>, <<4349, 4351>>, <<5024, 5109>>,
       <<5112, 5117>>, <<7296, 7306>>, <<7312, 7354>>, <<7357, 7359>>, <<7424, 7467>>, <<7531, 7543>>,
       <<7545, 7578>>, <<7680, 7957>>, <<7960, 7965>>, <<7968, 8005>>, <<8008, 8013>>, <<8016, 8023>>,
       <<8025, 8025>>, <<8027, 8027>>, <<8029, 8029>>, <<8031, 8061>>, <<8064, 8116>>, <<8118, 8124>>,
       <<8126, 8126>>, <<8130, 8132>>, <<8134, 8140>>, <<8144, 8147>>, <<8150, 8155>>, <<8160, 8172>>,
       <<8178, 8180>>, <<8182, 8188>>, <<8450, 8450>>, <<8455, 8455>>, <<8458, 8467>>, <<8469, 8469>>,
       <<8473, 8477>>, <<8484, 8484>>, <<8486, 8486>>, <<8488, 8488>>, <<8490, 8493>>, <<8495, 8500>>,
       <<8505, 8505>>, <<8508, 8511>>, <<8517, 8521>>, <<8526, 8526>>, <<8544, 8575>>, <<8579, 8580>>,
       <<9398, 9449>>, <<11264, 11387>>, <<11390, 11492>>, <<11499, 11502>>, <<11506, 11507>>, <<11520, 11557>>,
       <<11559, 11559>>, <<11565, 11565>>, <<42560, 42605>>, <<42624, 42651>>, <<42786, 42863>>, <<42865, 42887>>,
       <<42891, 42894>>, <<42896, 42972>>, <<42997, 42998>>, <<43002, 43002>>, <<43824, 43866>>, <<43872, 43880>>,
       <<43888, 43967>>, <<64256, 64262>>, <<64275, 64279>>, <<65313, 65338>>, <<65345, 65370>>, <<66560, 66639>>,
       <<66736, 66771>>, <<66776, 66811>>, <<66928, 66938>>, <<66940, 66954>>, <<66956, 66962>>, <<66964, 66965>>,
       <<66967, 66977>>, <<66979, 66993>>, <<66995, 67001>>, <<67003, 67004>>, <<68736, 68786>>, <<68800, 68850>>,
       <<68944, 68965>>, <<68976, 68997>>, <<71840, 71903>>, <<93760, 93823>>, <<93856, 93880>>, <<93883, 93907>>,
       <<119808, 119892>>, <<119894, 119964>>, <<119966, 119967>>, <<119970, 119970>>, <<119973, 119974>>, <<119977, 119980>>,
       <<119982, 119993>>, <<119995, 119995>>, <<119997, 120003>>, <<120005, 120069>>, <<120071, 120074>>, <<120077, 120084>>,
       <<120086, 120092>>, <<120094, 120121>>, <<120123, 120126>>, <<120128, 120132>>, <<120134, 120134>>, <<120138, 120144>>,
       <<120146, 120485>>, <<120488, 120512>>, <<120514, 120538>>, <<120540, 120570>>, <<120572, 120596>>, <<120598, 120628>>,
       <<120630, 120654>>, <<120656, 120686>>, <<120688, 120712>>, <<120714, 120744>>, <<120746, 120770>>, <<120772, 120779>>,
       <<122624, 122633>>, <<122635, 122654>>, <<122661, 122666>>, <<125184, 125251>>, <<127280, 127305>>, <<127312, 127337>>,
       <<127344, 127369>>
    >>

InRuns(runs, cp) == \E k \in 1..Len(runs) : runs[k][1] <= cp /\ cp <= runs[k][2]

\* The lower case of a code point other than U+0130 and U+03A3.
LowerCodePoint(cp) ==
    LET hits == {k \in 1..Len(LowerRuns) :
                    /\ LowerRuns[k][1] <= cp
                    /\ cp <= LowerRuns[k][2]
                    /\ (cp - LowerRuns[k][1]) % LowerRuns[k][4] = 0}
    IN  IF hits = {} THEN cp ELSE cp + LowerRuns[CHOOSE k \in hits : TRUE][3]

\* Code unit i of s and the next one are a surrogate pair: a lead surrogate
\* (D800..DBFF) and a trail surrogate (DC00..DFFF).
PairAt(s, i) ==
    /\ i >= 1 /\ i < Len(s)
    /\ s[i] >= 55296 /\ s[i] <= 56319
    /\ s[i + 1] >= 56320 /\ s[i + 1] <= 57343

\* The code point that starts at code unit i of s; an unpaired surrogate
\* stands for itself.
CodePointAt(s, i) ==
    IF PairAt(s, i) THEN 65536 + (s[i] - 55296) * 1024 + (s[i + 1] - 56320)
    ELSE s[i]

\* The UTF-16 code units of a code point.
CodeUnits(cp) ==
    IF cp < 65536 THEN <<cp>>
    ELSE <<55296 + ((cp - 65536) \div 1024), 56320 + ((cp - 65536) % 1024)>>

\* The Final_Sigma context of the sigma at code unit i: before it a cased
\* letter, then any number of case-ignorable code points; after it no cased
\* letter reached over case-ignorable code points only.
FinalSigma(s, i) ==
    LET starts == {j \in 1..Len(s) : ~PairAt(s, j - 1)}
        Skipped(j, k) == \A m \in starts : (j < m /\ m < k) =>
                             InRuns(CaseIgnorableRuns, CodePointAt(s, m))
        Letter(j) == InRuns(CasedRuns, CodePointAt(s, j))
    IN  /\ \E j \in starts : j < i /\ Letter(j) /\ Skipped(j, i)
        /\ ~\E j \in starts : j > i /\ Letter(j) /\ Skipped(i, j)

\* The code units that code unit i of s contributes to s.toLowerCase().
LowerAt(s, i) ==
    IF PairAt(s, i - 1) THEN <<>>
    ELSE IF s[i] = 304 THEN <<105, 775>>
    ELSE IF s[i] = 931 THEN (IF FinalSigma(s, i) THEN <<962>> ELSE <<963>>)
    ELSE CodeUnits(LowerCodePoint(CodePointAt(s, i)))

RECURSIVE LowerRange(_, _, _)
LowerRange(s, lo, hi) ==
    IF lo > hi THEN <<>>
    ELSE IF lo = hi THEN LowerAt(s, lo)
    ELSE LET mid == (lo + hi) \div 2
         IN  LowerRange(s, lo, mid) \o LowerRange(s, mid + 1, hi)

\* String.prototype.toLowerCase: a string of ASCII code units is converted
\* unit by unit.
toLowerCase(s) ==
    IF \A i \in 1..Len(s) : s[i] < 128
    THEN [i \in 1..Len(s) |-> IF s[i] >= 65 /\ s[i] <= 90 THEN s[i] + 32 ELSE s[i]]
    ELSE LowerRange(s, 1, Len(s))

\* String.prototype.toLowerCase on the string of one code unit.
LowerUnit(u) == toLowerCase(<<u>>)

\* The code units String.prototype.trim strips: the WhiteSpace and
\* LineTerminator code points of ECMAScript.
IsSpace(u) ==
    \/ u \in {9, 10, 11, 12, 13, 32, 160, 5760, 8232, 8233, 8239, 8287, 12288, 65279}
    \/ (u >= 8192 /\ u <= 8202)

\* searchQuery.trim() is truthy: some code unit is not white space.
TrimTruthy(s) == \E i \in 1..Len(s) : ~IsSpace(s[i])

\* String.prototype.includes: q occurs in s as a contiguous substring.
includes(s, q) ==
    \E k \in 0..(Len(s) - Len(q)) : \A j \in 1..Len(q) : s[k + j] = q[j]

\* a < b for strings: code-unit lexicographic order.
StrLess(a, b) ==
    \E k \in 1..(Len(a) + 1) :
        /\ k <= Len(b)
        /\ \A j \in 1..(k - 1) : a[j] = b[j]
        /\ (k = Len(a) + 1 \/ a[k] < b[k])


-----------------------------------------------------------------------------
(* Constants of the program *)

PAGE_SIZE == 50

StatusValues == {"hot", "sql", "mql", "nurture"}

OutreachValues ==
    {"not_contacted", "request_sent", "connected", "replied", "meeting_scheduled"}

SortFields == {"name", "company_name", "employee_count", "total_score", "title"}

\* The code units of the option value 'all' of the industry dropdown.
IndustryAll == <<97, 108, 108>>

\* The one assignee of this deployment: claimLead(contact.id, 'diego').
Diego == "diego"

-----------------------------------------------------------------------------
(* The derivation pipeline: filteredContacts, page.tsx:57-141 *)

StatusPass(c, sf) == sf = "all" \/ c.status = sf

\* The assignee filter without its branch for a named assignee: only
\* 'unassigned' filters.
AssigneePassUnassignedOnly(c, af) ==
    af = "unassigned" => ~(c.assigned_to # None /\ c.assigned_to[1] # "")

AssigneePass(c, af) ==
    IF af = "unassigned" THEN ~(c.assigned_to # None /\ c.assigned_to[1] # "")
    ELSE IF af # "all" THEN c.assigned_to = Some(af)
    ELSE TRUE

OutreachOf(c) ==
    IF c.outreach_status # None /\ c.outreach_status[1] # ""
    THEN c.outreach_status[1] ELSE "not_contacted"

OutreachPass(c, ouf) == ouf = "all" \/ OutreachOf(c) = ouf

\* The buckets with inclusive upper bounds.
SizeBucketInclusive(count, zf) ==
    CASE zf = "small"      -> count <= 500
      [] zf = "medium"     -> count >= 500 /\ count <= 5000
      [] zf = "large"      -> count >= 5000 /\ count <= 50000
      [] zf = "enterprise" -> count >= 50000
      [] OTHER             -> TRUE

SizeBucket(count, zf) ==
    CASE zf = "small"      -> count < 500
      [] zf = "medium"     -> count >= 500 /\ count < 5000
      [] zf = "large"      -> count >= 5000 /\ count < 50000
      [] zf = "enterprise" -> count >= 50000
      [] OTHER             -> TRUE

SizePass(c, zf) == zf = "all" \/ SizeBucket(OrZero(c.employee_count), zf)

IndustryPass(c, inf) == inf = IndustryAll \/ c.industry = Some(inf)

\* a?.toLowerCase().includes(query): undefined (falsy) when the field is missing.
OptIncludes(o, query) == o # None /\ includes(toLowerCase(o[1]), query)

SearchPass(c, q) ==
    IF TrimTruthy(q)
    THEN LET query == toLowerCase(q)
         IN  \/ includes(toLowerCase(c.name), query)
             \/ OptIncludes(c.company_name, query)
             \/ OptIncludes(c.title, query)
    ELSE TRUE

\* The six result.filter(...) passes, in the code's order.
FilterPass(c, sf, af, ouf, zf, inf, q) ==
    /\ StatusPass(c, sf)
    /\ AssigneePass(c, af)
    /\ OutreachPass(c, ouf)
    /\ SizePass(c, zf)
    /\ IndustryPass(c, inf)
    /\ SearchPass(c, q)

Filter(contacts, sf, af, ouf, zf, inf, q) ==
    SelectSeq(contacts, LAMBDA c : FilterPass(c, sf, af, ouf, zf, inf, q))

\* aVal (bVal) of the comparator: the key it takes from a contact.
\* The sort keys without toLowerCase.
SortKeyCaseSensitive(c, field) ==
    CASE field = "name"           -> c.name
      [] field = "company_name"   -> OrEmpty(c.company_name)
      [] field = "employee_count" -> OrZero(c.employee_count)
      [] field = "total_score"    -> c.total_score
      [] field = "title"          -> OrEmpty(c.title)

SortKey(c, field) ==
    CASE field = "name"           -> toLowerCase(c.name)
      [] field = "company_name"   -> toLowerCase(OrEmpty(c.company_name))
      [] field = "employee_count" -> OrZero(c.employee_count)
      [] field = "total_score"    -> c.total_score
      [] field = "title"          -> toLowerCase(OrEmpty(c.title))

\* aVal < bVal: numbers by value, strings by code units.
ValLess(aVal, bVal, field) ==
    IF field \in {"employee_count", "total_score"} THEN aVal < bVal
    ELSE StrLess(aVal, bVal)

\* The comparator without regard to sortDirection: always ascending.
CompareValsAscending(aVal, bVal, field, dir) ==
    IF field \in {"employee_count", "total_score"}
    THEN (IF aVal < bVal THEN -1 ELSE IF bVal < aVal THEN 1 ELSE 0)
    ELSE (IF aVal = bVal THEN 0
          ELSE IF \E k \in 1..(Len(aVal) + 1) :
                      /\ k <= Len(bVal)
                      /\ \A j \in 1..(k - 1) : aVal[j] = bVal[j]
                      /\ (k = Len(aVal) + 1 \/ aVal[k] < bVal[k])
               THEN -1 ELSE 1)

\* What the comparator returns for the keys aVal and bVal, page.tsx:134-137.
CompareVals(aVal, bVal, field, dir) ==
    IF ValLess(aVal, bVal, field) THEN (IF dir = "asc" THEN -1 ELSE 1)
    ELSE IF ValLess(bVal, aVal, field) THEN (IF dir = "asc" THEN 1 ELSE -1)
    ELSE 0

\* The comparator of result.sort on two contacts.
Compare(a, b, field, dir) ==
    CompareVals(SortKey(a, field), SortKey(b, field), field, dir)

\* The keys of the elements of s, in order.
SortKeys(s, field) == SubSeq([i \in 1..Len(s) |-> SortKey(s[i], field)], 1, Len(s))

\* Array.prototype.sort is stable, so with this comparator (a total preorder on
\* the keys) s[j] ends before s[i] exactly when the comparator puts it first, or
\* calls them equal and j < i.  SortRanks gives each element's final position.
SortRanks(key, field, dir) ==
    SubSeq([i \in 1..Len(key) |->
               Cardinality({j \in 1..Len(key) :
                   LET cmp == CompareVals(key[j], key[i], field, dir)
                   IN  cmp < 0 \/ (cmp = 0 /\ j < i)}) + 1],
           1, Len(key))

Permute(s, rank) == [k \in 1..Len(s) |-> s[CHOOSE i \in 1..Len(s) : rank[i] = k]]

\* [...result].sort(comparator)
Sort(s, field, dir) == Permute(s, SortRanks(SortKeys(s, field), field, dir))

filteredContacts ==
    Sort(Filter(allContacts, statusFilter, assigneeFilter, outreachFilter,
                sizeFilter, industryFilter, searchQuery),
         sortField, sortDirection)

\* Math.ceil(n / PAGE_SIZE)
CeilDiv(n, d) == (n + d - 1) \div d

TotalPagesOf(result) == CeilDiv(Len(result), PAGE_SIZE)

totalPages == TotalPagesOf(filteredContacts)

Min(a, b) == IF a < b THEN a ELSE b

Max(a, b) == IF a > b THEN a ELSE b

\* Array.prototype.slice(start, end) for 0 <= start, on a 1-based sequence.
Slice(s, start, end) == SubSeq(s, start + 1, Min(end, Len(s)))

\* The page slice with its start one row late.
PageOfStartingLate(result, page) ==
    Slice(result, (page - 1) * PAGE_SIZE + 1, (page - 1) * PAGE_SIZE + PAGE_SIZE)

PageOf(result, page) ==
    Slice(result, (page - 1) * PAGE_SIZE, (page - 1) * PAGE_SIZE + PAGE_SIZE)

paginatedContacts == PageOf(filteredContacts, currentPage)

Ids(s) == {s[i].id : i \in 1..Len(s)}

CountStatus(contacts, st) ==
    Cardinality({i \in 1..Len(contacts) : contacts[i].status = st})

\* statsCounts, page.tsx:49-54
StatsOf(contacts) ==
    [hot     |-> CountStatus(contacts, "hot"),
     sql     |-> CountStatus(contacts, "sql"),
     mql     |-> CountStatus(contacts, "mql"),
     nurture |-> CountStatus(contacts, "nurture")]

\* The tiles counted over the filtered result.
statsCountsFiltered == StatsOf(filteredContacts)

statsCounts == StatsOf(allContacts)

-----------------------------------------------------------------------------
(* The remote store and the calls in flight *)

\* What .update(updates).eq('id', id) / .in('id', ids) does to the stored rows:
\* a write record w carries the fields of `updates`.
ApplyRemote(rows, w) ==
    [i \in 1..Len(rows) |->
        IF rows[i].id \in w.ids
        THEN CASE w.op \in {"claim", "unclaim", "bulk"} ->
                    [rows[i] EXCEPT !.assigned_to = w.val]
               [] w.op = "outreach" ->
                    IF w.val = "request_sent"
                    THEN [rows[i] EXCEPT !.outreach_status = Some(w.val),
                                         !.last_contact_date = w.date]
                    ELSE [rows[i] EXCEPT !.outreach_status = Some(w.val)]
               [] w.op = "notes" ->
                    [rows[i] EXCEPT !.notes = Some(w.val)]
        ELSE rows[i]]

\* The patch built as a new row that carries the written field only: the other
\* workflow fields are lost.
PatchedWithoutSpread(c, w, day) ==
    CASE w.op \in {"claim", "unclaim", "bulk"} ->
            [c EXCEPT !.assigned_to = w.val, !.outreach_status = None, !.notes = None]
      [] w.op = "outreach" ->
            [c EXCEPT !.outreach_status = Some(w.val), !.assigned_to = None,
                      !.notes = None]
      [] w.op = "notes" ->
            [c EXCEPT !.notes = Some(w.val), !.assigned_to = None,
                      !.outreach_status = None]

\* The patch with the empty string where unclaimLead has null.
PatchedReleasingToEmpty(c, w, day) ==
    CASE w.op = "unclaim" -> [c EXCEPT !.assigned_to = <<"">>]
      [] w.op \in {"claim", "bulk"} -> [c EXCEPT !.assigned_to = w.val]
      [] w.op = "outreach" ->
            IF w.val = "request_sent"
            THEN [c EXCEPT !.outreach_status = <<w.val>>,
                           !.last_contact_date = <<day>>]
            ELSE [c EXCEPT !.outreach_status = <<w.val>>]
      [] w.op = "notes" -> [c EXCEPT !.notes = <<w.val>>]

\* { ...c, <field>: <value> }: the contact the map callback returns for a
\* contact the write w targets; day is new Date() when the callback runs.
Patched(c, w, day) ==
    CASE w.op \in {"claim", "unclaim", "bulk"} -> [c EXCEPT !.assigned_to = w.val]
      [] w.op = "outreach" ->
            IF w.val = "request_sent"
            THEN [c EXCEPT !.outreach_status = Some(w.val),
                           !.last_contact_date = Some(day)]
            ELSE [c EXCEPT !.outreach_status = Some(w.val)]
      [] w.op = "notes" -> [c EXCEPT !.notes = Some(w.val)]

\* The map callback with its condition inverted: every contact but the
\* targeted ones is patched.
ApplyLocalInverted(prev, w, day) ==
    [i \in 1..Len(prev) |->
        IF prev[i].id \notin w.ids THEN Patched(prev[i], w, day) ELSE prev[i]]

\* prev.filter(...) where the code has prev.map(...): only the targeted
\* contacts are kept.
ApplyLocalFilter(prev, w, day) ==
    LET hit == SelectSeq(prev, LAMBDA c : c.id \in w.ids)
    IN  [i \in 1..Len(hit) |-> Patched(hit[i], w, day)]

\* The setAllContacts(prev => prev.map(...)) of the handler that issued w, run
\* when its await resumes without error.
ApplyLocal(prev, w, day) ==
    [i \in 1..Len(prev) |->
        IF prev[i].id \in w.ids THEN Patched(prev[i], w, day) ELSE prev[i]]

RemoveAt(s, i) == SubSeq(s, 1, i - 1) \o SubSeq(s, i + 1, Len(s))

\* A handler's call to the store: the request leaves, the handler awaits.
Write(op, ids, val, date) ==
    [op |-> op, ids |-> ids, val |-> val, date |-> date, st |-> "sent"]

\* The table (its header, rows and their controls) is rendered when the
\* collection is not loading and the filtered result is not empty, page.tsx:560-564.
TableShownFor(result) == ~loading /\ Len(result) > 0

TableShown == TableShownFor(filteredContacts)

-----------------------------------------------------------------------------
(* Loading: fetchContacts, page.tsx:160-174, and the mount effect, 156-158 *)

\* setLoading(true), then the select is sent.
fetchContacts ==
    /\ loading' = TRUE
    /\ fetches' = Append(fetches, [st |-> "sent", data |-> <<>>])
    /\ UNCHANGED <<allContacts, filterVars, sortVars, currentPage, selectedIds,
                   remote, writes, today>>

\* The store answers fetch i: the rows by total_score descending, or an error.
ServerFetch(i, ok) ==
    /\ i \in 1..Len(fetches)
    /\ fetches[i].st = "sent"
    /\ fetches' = [fetches EXCEPT ![i] =
                      IF ok THEN [st |-> "ok", data |-> remote]
                            ELSE [st |-> "err", data |-> <<>>]]
    /\ UNCHANGED <<allContacts, loading, filterVars, sortVars, currentPage,
                   selectedIds, remote, writes, today>>

\* The await of fetch i resumes and the collection is replaced by the data of
\* the response, which is empty on error.
FetchDoneClearingOnError(i) ==
    /\ i \in 1..Len(fetches)
    /\ fetches[i].st # "sent"
    /\ allContacts' = fetches[i].data
    /\ loading' = FALSE
    /\ fetches' = [k \in 1..(Len(fetches) - 1) |->
                      IF k < i THEN fetches[k] ELSE fetches[k + 1]]
    /\ UNCHANGED <<filterVars, sortVars, currentPage, selectedIds, remote, writes,
                   today>>

\* The await of fetch i resumes: setAllContacts(data) unless error; setLoading(false).
FetchDone(i) ==
    /\ i \in 1..Len(fetches)
    /\ fetches[i].st # "sent"
    /\ allContacts' = IF fetches[i].st = "ok" THEN fetches[i].data ELSE allContacts
    /\ loading' = FALSE
    /\ fetches' = RemoveAt(fetches, i)
    /\ UNCHANGED <<filterVars, sortVars, currentPage, selectedIds, remote, writes,
                   today>>

\* Outside this component a contact is deleted from the store (contacts are
\* created and deleted upstream).
UpstreamDelete(id) ==
    /\ id \in Ids(remote)
    /\ remote' = SelectSeq(remote, LAMBDA c : c.id # id)
    /\ UNCHANGED <<allContacts, loading, filterVars, sortVars, currentPage,
                   selectedIds, fetches, writes, today>>

\* The state after the first render and its effects: the collection is empty,
\* the mount effect has called fetchContacts, the store holds rows.
\* The select of the server-filtered dashboard, issued by a render whose
\* filters are sf and af, part_000:24-37.
VariantQuery(sf, af) == [st |-> "sent", status |-> sf, assignee |-> af, data |-> <<>>]

\* The server-filtered dashboard after construction and its mount effect,
\* part_000:11-19: no contacts, loading, both filters 'all', one select sent.
\* `failed` records that a select has answered with an error (part_000:41-42).
VariantMounted ==
    [contacts |-> <<>>, loading |-> TRUE, statusFilter |-> "all",
     assigneeFilter |-> "all", fetches |-> <<VariantQuery("all", "all")>>,
     writes |-> <<>>, failed |-> FALSE]

InitWith(rows) ==
    /\ allContacts = <<>>
    /\ loading = TRUE
    /\ statusFilter = "all"
    /\ assigneeFilter = "all"
    /\ searchQuery = <<>>
    /\ currentPage = 1
    /\ selectedIds = {}
    /\ outreachFilter = "all"
    /\ sizeFilter = "all"
    /\ industryFilter = IndustryAll
    /\ sortField = "total_score"
    /\ sortDirection = "desc"
    /\ remote = rows
    /\ fetches = <<[st |-> "sent", data |-> <<>>]>>
    /\ expandedId = None
    /\ copiedId = None
    /\ download = None
    /\ clips = <<>>
    /\ timers = <<>>
    /\ writes = <<>>
    /\ today = 1
    /\ issued = 0
    /\ variant = VariantMounted

-----------------------------------------------------------------------------
(* Mutating handlers, page.tsx:176-249 *)

Issue(w) ==
    /\ writes' = Append(writes, w)
    /\ UNCHANGED <<allContacts, loading, filterVars, sortVars, currentPage,
                   selectedIds, remote, fetches, today>>

\* claimLead(contactId, assignee) up to its await.
claimLead(contactId, assignee) == Issue(Write("claim", {contactId}, Some(assignee), None))

\* unclaimLead(contactId) up to its await.
unclaimLead(contactId) == Issue(Write("unclaim", {contactId}, None, None))

\* updateOutreachStatus(contactId, status) up to its await: updates carries
\* last_contact_date = today's date when status is request_sent.
updateOutreachStatus(contactId, status) ==
    Issue(Write("outreach", {contactId}, status,
                IF status = "request_sent" THEN Some(today) ELSE None))

\* updateNotes(contactId, notes) up to its await.
updateNotes(contactId, notes) == Issue(Write("notes", {contactId}, notes, None))

\* bulkClaim(assignee) up to its await; returns at once on an empty selection.
\* The closure keeps this render's selectedIds.
bulkClaim(assignee) ==
    IF selectedIds = {} THEN UNCHANGED vars
    ELSE Issue(Write("bulk", selectedIds, Some(assignee), None))

\* The store processes write i: it applies the update, or fails and applies nothing.
ServerWrite(i, ok) ==
    /\ i \in 1..Len(writes)
    /\ writes[i].st = "sent"
    /\ writes' = [writes EXCEPT ![i].st = IF ok THEN "ok" ELSE "err"]
    /\ remote' = IF ok THEN ApplyRemote(remote, writes[i]) ELSE remote
    /\ UNCHANGED <<allContacts, loading, filterVars, sortVars, currentPage,
                   selectedIds, fetches, today>>

\* bulkClaim without its setSelectedIds(new Set()).
SelectionKept(w, sel) == sel

\* The selection after the await of write w resumes without error.
SelectionAfter(w, sel) == IF w.op = "bulk" THEN {} ELSE sel

\* The handlers with the update applied whether or not the call failed.
WriteDoneIgnoringError(i) ==
    /\ i \in 1..Len(writes)
    /\ writes[i].st # "sent"
    /\ allContacts' = [k \in 1..Len(allContacts) |->
                          IF allContacts[k].id \in writes[i].ids
                          THEN Patched(allContacts[k], writes[i], today)
                          ELSE allContacts[k]]
    /\ selectedIds' = IF writes[i].op = "bulk" THEN {} ELSE selectedIds
    /\ writes' = RemoveAt(writes, i)
    /\ UNCHANGED <<loading, filterVars, sortVars, currentPage, remote, fetches,
                   today>>

\* The await of write i resumes: if (!error) { setAllContacts(...); ... }.
WriteDone(i) ==
    /\ i \in 1..Len(writes)
    /\ writes[i].st # "sent"
    /\ IF writes[i].st = "ok"
       THEN /\ allContacts' = ApplyLocal(allContacts, writes[i], today)
            /\ selectedIds' = SelectionAfter(writes[i], selectedIds)
       ELSE UNCHANGED <<allContacts, selectedIds>>
    /\ writes' = RemoveAt(writes, i)
    /\ UNCHANGED <<loading, filterVars, sortVars, currentPage, remote, fetches,
                   today>>

\* Midnight UTC passes: new Date().toISOString().split('T')[0] changes.
Tick ==
    /\ today' = today + 1
    /\ UNCHANGED <<allContacts, loading, filterVars, sortVars, currentPage,
                   selectedIds, remote, fetches, writes>>

-----------------------------------------------------------------------------
(* Filters, sort and the reset effect, page.tsx:150-154, 351-376, 426-512 *)

\* The reset effect without its setSelectedIds(new Set()).
SetViewKeepingSelection(sf, af, ouf, zf, inf, q, field, dir) ==
    /\ statusFilter' = sf
    /\ assigneeFilter' = af
    /\ outreachFilter' = ouf
    /\ sizeFilter' = zf
    /\ industryFilter' = inf
    /\ searchQuery' = q
    /\ sortField' = field
    /\ sortDirection' = dir
    /\ IF <<sf, af, ouf, zf, inf, q, field, dir>> #
          <<statusFilter, assigneeFilter, outreachFilter, sizeFilter,
            industryFilter, searchQuery, sortField, sortDirection>>
       THEN currentPage' = 1
       ELSE UNCHANGED currentPage
    /\ UNCHANGED <<selectedIds, allContacts, loading, asyncVars>>

\* One render that takes new values for the eight dependencies of the reset
\* effect (page.tsx:151-154): the effect runs when any of them differs from the
\* previous render, and then setCurrentPage(1) and setSelectedIds(new Set()).
SetView(sf, af, ouf, zf, inf, q, field, dir) ==
    /\ statusFilter' = sf
    /\ assigneeFilter' = af
    /\ outreachFilter' = ouf
    /\ sizeFilter' = zf
    /\ industryFilter' = inf
    /\ searchQuery' = q
    /\ sortField' = field
    /\ sortDirection' = dir
    /\ IF <<sf, af, ouf, zf, inf, q, field, dir>> #
          <<statusFilter, assigneeFilter, outreachFilter, sizeFilter,
            industryFilter, searchQuery, sortField, sortDirection>>
       THEN currentPage' = 1 /\ selectedIds' = {}
       ELSE UNCHANGED <<currentPage, selectedIds>>
    /\ UNCHANGED <<allContacts, loading, asyncVars>>

setStatusFilter(v) ==
    SetView(v, assigneeFilter, outreachFilter, sizeFilter, industryFilter,
            searchQuery, sortField, sortDirection)

\* A status tile's onClick, page.tsx:531.
clickTile(status) == setStatusFilter(IF statusFilter = status THEN "all" ELSE status)

setAssigneeFilter(v) ==
    SetView(statusFilter, v, outreachFilter, sizeFilter, industryFilter,
            searchQuery, sortField, sortDirection)

setOutreachFilter(v) ==
    SetView(statusFilter, assigneeFilter, v, sizeFilter, industryFilter,
            searchQuery, sortField, sortDirection)

setSizeFilter(v) ==
    SetView(statusFilter, assigneeFilter, outreachFilter, v, industryFilter,
            searchQuery, sortField, sortDirection)

\* Array.from(industries).sort(): the distinct truthy industries, ascending.
IndustrySet(contacts) ==
    {contacts[i].industry[1] :
        i \in {j \in 1..Len(contacts) : TruthyStr(contacts[j].industry)}}

RECURSIVE SortedStrings(_)
SortedStrings(S) ==
    IF S = {} THEN <<>>
    ELSE LET least == CHOOSE x \in S : \A y \in S \ {x} : StrLess(x, y)
         IN  <<least>> \o SortedStrings(S \ {least})

uniqueIndustries == SortedStrings(IndustrySet(allContacts))

\* The industry dropdown offers 'all' and the entries of uniqueIndustries.
IndustryOptions ==
    {IndustryAll} \cup {uniqueIndustries[i] : i \in 1..Len(uniqueIndustries)}

setIndustryFilter(v) ==
    /\ v \in IndustryOptions
    /\ SetView(statusFilter, assigneeFilter, outreachFilter, sizeFilter, v,
               searchQuery, sortField, sortDirection)

setSearchQuery(q) ==
    SetView(statusFilter, assigneeFilter, outreachFilter, sizeFilter,
            industryFilter, q, sortField, sortDirection)

hasActiveFilters ==
    \/ statusFilter # "all"
    \/ assigneeFilter # "all"
    \/ outreachFilter # "all"
    \/ sizeFilter # "all"
    \/ industryFilter # IndustryAll
    \/ TrimTruthy(searchQuery)

\* The Clear filters button is rendered when hasActiveFilters.
clearAllFilters ==
    /\ hasActiveFilters
    /\ SetView("all", "all", "all", "all", IndustryAll, <<>>, "total_score", "desc")

\* Every newly chosen column starts ascending.
DefaultDirectionAscending(field) == "asc"

DefaultDirection(field) ==
    IF field \in {"total_score", "employee_count"} THEN "desc" ELSE "asc"

\* A column header's onClick; the headers are part of the table.
toggleSort(field) ==
    /\ TableShown
    /\ IF sortField = field
       THEN SetView(statusFilter, assigneeFilter, outreachFilter, sizeFilter,
                    industryFilter, searchQuery, sortField,
                    IF sortDirection = "asc" THEN "desc" ELSE "asc")
       ELSE SetView(statusFilter, assigneeFilter, outreachFilter, sizeFilter,
                    industryFilter, searchQuery, field, DefaultDirection(field))

-----------------------------------------------------------------------------
(* Pagination controls, page.tsx:803-852, and selection, page.tsx:280-296 *)

\* The pagination bar is part of the table and rendered when totalPages > 1.
PaginationShownFor(result) == TableShownFor(result) /\ TotalPagesOf(result) > 1

PaginationShown == PaginationShownFor(filteredContacts)

SetPage(p) ==
    /\ currentPage' = p
    /\ UNCHANGED <<allContacts, loading, filterVars, sortVars, selectedIds,
                   asyncVars>>

\* Previous, with `result` the filtered and sorted list: disabled on page 1.
prevPageOn(result) ==
    /\ PaginationShownFor(result)
    /\ currentPage # 1
    /\ SetPage(Max(1, currentPage - 1))

prevPage == prevPageOn(filteredContacts)

\* Next, with `result` the filtered and sorted list: disabled on the last page.
nextPageOn(result) ==
    LET pages == TotalPagesOf(result)
    IN  /\ PaginationShownFor(result)
        /\ currentPage # pages
        /\ SetPage(Min(pages, currentPage + 1))

nextPage == nextPageOn(filteredContacts)

\* The page numbers without the branch for the last pages.
PageNumOfWithoutEndCase(i, pages, page) ==
    IF pages <= 5 THEN i + 1
    ELSE IF page <= 3 THEN i + 1
    ELSE page - 2 + i

\* The number on the i-th page button, i = 0 .. min(5, totalPages) - 1, with
\* `pages` pages and `page` the current one.
PageNumOf(i, pages, page) ==
    IF pages <= 5 THEN i + 1
    ELSE IF page <= 3 THEN i + 1
    ELSE IF page >= pages - 2 THEN pages - 4 + i
    ELSE page - 2 + i

PageButtonsOf(pages, page) ==
    {PageNumOf(i, pages, page) : i \in 0..(Min(5, pages) - 1)}

PageButtons == PageButtonsOf(totalPages, currentPage)

gotoPage(p) ==
    LET pages == totalPages
    IN  /\ ~loading
        /\ pages > 1
        /\ p \in PageButtonsOf(pages, currentPage)
        /\ SetPage(p)

SetSelection(sel) ==
    /\ selectedIds' = sel
    /\ UNCHANGED <<allContacts, loading, filterVars, sortVars, currentPage,
                   asyncVars>>

\* The set toggleSelectAll passes to setSelectedIds.
SelectAllResult(sel, page) ==
    IF Cardinality(sel) = Len(page) THEN {} ELSE Ids(page)

\* The header checkbox's onChange.
toggleSelectAll ==
    LET result == filteredContacts
    IN  /\ TableShownFor(result)
        /\ SetSelection(SelectAllResult(selectedIds, PageOf(result, currentPage)))

\* A row checkbox's onChange.
toggleSelect(id) ==
    /\ ~loading
    /\ id \in Ids(paginatedContacts)
    /\ SetSelection(IF id \in selectedIds THEN selectedIds \ {id}
                                          ELSE selectedIds \cup {id})

-----------------------------------------------------------------------------
(* The expanded row and copyNoteContext, page.tsx:318-323, 617, 689, 776 *)

\* The variables of the dashboard proper, which these handlers leave alone.
boardVars == <<allContacts, loading, filterVars, sortVars, currentPage,
               selectedIds, asyncVars>>

\* A click on a row of the table: setExpandedId(expandedId === id ? null : id).
toggleExpand(id) ==
    /\ TableShown
    /\ id \in Ids(paginatedContacts)
    /\ expandedId' = IF expandedId = Some(id) THEN None ELSE Some(id)
    /\ UNCHANGED <<boardVars, copiedId, download, clips, timers>>

\* copyNoteContext(contact) up to its await; the button is in the expanded row.
\* (The text built by generateNoteContext is not part of the state.)
copyNoteContext(contact) ==
    /\ TableShown
    /\ contact.id \in Ids(paginatedContacts)
    /\ expandedId = Some(contact.id)
    /\ clips' = Append(clips, contact.id)
    /\ UNCHANGED <<boardVars, expandedId, copiedId, download, timers>>

\* navigator.clipboard.writeText settles for call i and the handler resumes:
\* on success setCopiedId(contact.id) and setTimeout(..., 2000); a rejection
\* leaves the handler at the await.
ClipboardDone(i, ok) ==
    /\ i \in 1..Len(clips)
    /\ clips' = [k \in 1..(Len(clips) - 1) |-> IF k < i THEN clips[k] ELSE clips[k + 1]]
    /\ IF ok
       THEN /\ copiedId' = Some(clips[i])
            /\ timers' = Append(timers, clips[i])
       ELSE UNCHANGED <<copiedId, timers>>
    /\ UNCHANGED <<boardVars, expandedId, download>>

\* The oldest pending timer fires (all timers run for the same 2000 ms, so
\* they fire in the order they were started): setCopiedId(null).
Timeout ==
    /\ timers # <<>>
    /\ copiedId' = None
    /\ timers' = Tail(timers)
    /\ UNCHANGED <<boardVars, expandedId, download, clips>>

-----------------------------------------------------------------------------
(* Export: exportSelected, page.tsx:251-278 *)

\* String(n) of an integer, as template literals and Array.prototype.join do.
RECURSIVE ToDecimal(_)
ToDecimal(n) ==
    IF n < 0 THEN <<45>> \o ToDecimal(0 - n)
    ELSE IF n < 10 THEN <<48 + n>>
    ELSE ToDecimal(n \div 10) \o <<48 + (n % 10)>>

\* The characters of a status value.
StatusText(st) ==
    CASE st = "hot" -> <<104, 111, 116>>
      [] st = "sql" -> <<115, 113, 108>>
      [] st = "mql" -> <<109, 113, 108>>
      [] st = "nurture" -> <<110, 117, 114, 116, 117, 114, 101>>

\* Array.prototype.join(sep) on an array of strings.
RECURSIVE JoinWith(_, _)
JoinWith(parts, sep) ==
    IF parts = <<>> THEN <<>>
    ELSE IF Len(parts) = 1 THEN parts[1]
    ELSE JoinWith(SubSeq(parts, 1, Len(parts) - 1), sep) \o sep \o parts[Len(parts)]

\* `"${s}"`
Quoted(s) == <<34>> \o s \o <<34>>

\* Name, Title, Company, Industry, Employees, Score, Status, LinkedIn URL, Email
CsvHeader ==
    <<<<78, 97, 109, 101>>, <<84, 105, 116, 108, 101>>, <<67, 111, 109, 112, 97, 110, 121>>, <<73, 110, 100, 117, 115, 116, 114, 121>>,
      <<69, 109, 112, 108, 111, 121, 101, 101, 115>>, <<83, 99, 111, 114, 101>>, <<83, 116, 97, 116, 117, 115>>,
      <<76, 105, 110, 107, 101, 100, 73, 110, 32, 85, 82, 76>>, <<69, 109, 97, 105, 108>>>>

\* The cells of one contact, page.tsx:258-268.
CsvCells(c) ==
    <<Quoted(c.name),
      Quoted(OrEmpty(c.title)),
      Quoted(OrEmpty(c.company_name)),
      Quoted(OrEmpty(c.industry)),
      IF OrZero(c.employee_count) # 0 THEN ToDecimal(c.employee_count[1]) ELSE <<>>,
      ToDecimal(c.total_score),
      StatusText(c.status),
      OrEmpty(c.linkedin_url),
      OrEmpty(c.email)>>

\* The contacts exported: the selected ones of the filtered result, or all of it.
ExportSet(result, sel) ==
    IF Cardinality(sel) > 0 THEN SelectSeq(result, LAMBDA c : c.id \in sel) ELSE result

\* The lines of the file and the file.
CsvLines(contacts) ==
    <<JoinWith(CsvHeader, <<44>>)>> \o
        [i \in 1..Len(contacts) |-> JoinWith(CsvCells(contacts[i]), <<44>>)]

CsvText(contacts) == JoinWith(CsvLines(contacts), <<10>>)

\* The Export button: the file leads-export-<date>.csv is handed to the browser.
exportSelected ==
    /\ download' = Some([date |-> today,
                         text |-> CsvText(ExportSet(filteredContacts, selectedIds))])
    /\ UNCHANGED <<allContacts, loading, filterVars, sortVars, currentPage,
                   selectedIds, asyncVars, expandedId, copiedId, clips, timers>>

-----------------------------------------------------------------------------
(* Rows of the remote store used by the specifications.  Each list is in the
   order the select returns: total_score descending. *)

\* 1 "Ann Lee" CTO at Acme; 2 "Bob Ray" with no company data, assigned;
\* 3 "Doe, Jane" with a request sent the day before.
SmallRows ==
    <<[id |-> 1, name |-> <<65, 110, 110, 32, 76, 101, 101>>,
      title |-> Some(<<67, 84, 79>>), company_name |-> Some(<<65, 99, 109, 101>>),
      industry |-> Some(<<83, 97, 97, 83>>), employee_count |-> Some(499),
      firmographic_score |-> 30, title_score |-> 30, engagement_score |-> 30,
      total_score |-> 90, status |-> "hot", outreach_status |-> Some("not_contacted"),
      assigned_to |-> None, notes |-> None, last_contact_date |-> None,
      linkedin_url |-> None, email |-> None],
      [id |-> 2, name |-> <<66, 111, 98, 32, 82, 97, 121>>,
      title |-> None, company_name |-> None,
      industry |-> None, employee_count |-> None,
      firmographic_score |-> 20, title_score |-> 25, engagement_score |-> 25,
      total_score |-> 70, status |-> "sql", outreach_status |-> None,
      assigned_to |-> Some("diego"), notes |-> Some("met"), last_contact_date |-> None,
      linkedin_url |-> None, email |-> None],
      [id |-> 3, name |-> <<68, 111, 101, 44, 32, 74, 97, 110, 101>>,
      title |-> Some(<<118, 112, 32, 115, 97, 108, 101, 115>>), company_name |-> Some(<<71, 108, 111, 98, 101, 120>>),
      industry |-> Some(<<69, 110, 101, 114, 103, 121>>), employee_count |-> Some(5000),
      firmographic_score |-> 10, title_score |-> 20, engagement_score |-> 10,
      total_score |-> 40, status |-> "mql", outreach_status |-> Some("request_sent"),
      assigned_to |-> None, notes |-> None, last_contact_date |-> Some(0),
      linkedin_url |-> None, email |-> None]>>

\* Eight contacts over the four statuses, the bucket boundaries of
\* employee_count (499, 500, 4999, 5000, 49999, 50000, 0 and missing), the five
\* outreach statuses and a missing one, and names, titles and companies that
\* differ in case: "Ann Lee", "Doe, Jane", "Bob Ray", "Zed Doe", "Cy Poe",
\* "Al Fox", "Di Roe", "Eve Moe".
FilterRows ==
    <<[id |-> 1, name |-> <<65, 110, 110, 32, 76, 101, 101>>,
      title |-> Some(<<67, 84, 79>>), company_name |-> Some(<<65, 99, 109, 101>>),
      industry |-> Some(<<83, 97, 97, 83>>), employee_count |-> Some(499),
      firmographic_score |-> 35, title_score |-> 30, engagement_score |-> 30,
      total_score |-> 95, status |-> "hot", outreach_status |-> Some("not_contacted"),
      assigned_to |-> None, notes |-> None, last_contact_date |-> None,
      linkedin_url |-> None, email |-> None],
      [id |-> 2, name |-> <<68, 111, 101, 44, 32, 74, 97, 110, 101>>,
      title |-> Some(<<86, 80, 32, 83, 97, 108, 101, 115>>), company_name |-> Some(<<71, 108, 111, 98, 101, 120>>),
      industry |-> Some(<<69, 110, 101, 114, 103, 121>>), employee_count |-> Some(500),
      firmographic_score |-> 30, title_score |-> 30, engagement_score |-> 30,
      total_score |-> 90, status |-> "hot", outreach_status |-> Some("request_sent"),
      assigned_to |-> Some("diego"), notes |-> None, last_contact_date |-> None,
      linkedin_url |-> None, email |-> None],
      [id |-> 3, name |-> <<66, 111, 98, 32, 82, 97, 121>>,
      title |-> None, company_name |-> None,
      industry |-> None, employee_count |-> None,
      firmographic_score |-> 30, title_score |-> 25, engagement_score |-> 25,
      total_score |-> 80, status |-> "sql", outreach_status |-> None,
      assigned_to |-> None, notes |-> None, last_contact_date |-> None,
      linkedin_url |-> None, email |-> None],
      [id |-> 4, name |-> <<90, 101, 100, 32, 68, 111, 101>>,
      title |-> Some(<<70, 111, 117, 110, 100, 101, 114>>), company_name |-> Some(<<97, 99, 109, 101>>),
      industry |-> Some(<<83, 97, 97, 83>>), employee_count |-> Some(4999),
      firmographic_score |-> 20, title_score |-> 25, engagement_score |-> 25,
      total_score |-> 70, status |-> "sql", outreach_status |-> Some("connected"),
      assigned_to |-> None, notes |-> None, last_contact_date |-> None,
      linkedin_url |-> None, email |-> None],
      [id |-> 5, name |-> <<67, 121, 32, 80, 111, 101>>,
      title |-> Some(<<99, 116, 111>>), company_name |-> Some(<<73, 110, 105, 116, 101, 99, 104>>),
      industry |-> Some(<<69, 110, 101, 114, 103, 121>>), employee_count |-> Some(5000),
      firmographic_score |-> 20, title_score |-> 20, engagement_score |-> 20,
      total_score |-> 60, status |-> "mql", outreach_status |-> Some("replied"),
      assigned_to |-> Some("diego"), notes |-> None, last_contact_date |-> None,
      linkedin_url |-> None, email |-> None],
      [id |-> 6, name |-> <<65, 108, 32, 70, 111, 120>>,
      title |-> None, company_name |-> Some(<<72, 111, 111, 108, 105>>),
      industry |-> Some(<<83, 97, 97, 83>>), employee_count |-> Some(49999),
      firmographic_score |-> 10, title_score |-> 20, engagement_score |-> 20,
      total_score |-> 50, status |-> "mql", outreach_status |-> Some("meeting_scheduled"),
      assigned_to |-> Some("maria"), notes |-> None, last_contact_date |-> None,
      linkedin_url |-> None, email |-> None],
      [id |-> 7, name |-> <<68, 105, 32, 82, 111, 101>>,
      title |-> Some(<<86, 80, 32, 83, 97, 108, 101, 115>>), company_name |-> None,
      industry |-> None, employee_count |-> Some(50000),
      firmographic_score |-> 10, title_score |-> 20, engagement_score |-> 10,
      total_score |-> 40, status |-> "nurture", outreach_status |-> Some("not_contacted"),
      assigned_to |-> None, notes |-> None, last_contact_date |-> None,
      linkedin_url |-> None, email |-> None],
      [id |-> 8, name |-> <<69, 118, 101, 32, 77, 111, 101>>,
      title |-> Some(<<70, 111, 117, 110, 100, 101, 114>>), company_name |-> Some(<<71, 108, 111, 98, 101, 120>>),
      industry |-> Some(<<69, 110, 101, 114, 103, 121>>), employee_count |-> Some(0),
      firmographic_score |-> 10, title_score |-> 10, engagement_score |-> 10,
      total_score |-> 30, status |-> "nurture", outreach_status |-> Some("request_sent"),
      assigned_to |-> Some("diego"), notes |-> None, last_contact_date |-> None,
      linkedin_url |-> None, email |-> None]>>

\* The number of rows of the large collection.
BigN == 52

\* Of the large collection, rows 1..BigUnassigned are unassigned (the rest are
\* assigned to diego) and rows 1..BigSmall have 100 employees (the rest 1000).
BigUnassigned == 51

BigSmall == 50

Digit(n) == 48 + (n % 10)

\* Row i of the large collection: "L001", "L002", ..., every one mql, with
\* total_score falling from row to row.
BigRow(i) ==
    [id |-> i, name |-> <<76, Digit(i \div 100), Digit(i \div 10), Digit(i)>>,
     title |-> None, company_name |-> Some(<<65, 99, 109, 101>>),
     industry |-> IF i % 2 = 1 THEN Some(<<83, 97, 97, 83>>) ELSE Some(<<69, 110, 101, 114, 103, 121>>),
     employee_count |-> IF i <= BigSmall THEN Some(100) ELSE Some(1000),
     firmographic_score |-> 10, title_score |-> 10, engagement_score |-> 10,
     total_score |-> 1000 - i, status |-> "mql", outreach_status |-> None,
     assigned_to |-> IF i <= BigUnassigned THEN None ELSE Some(Diego),
     notes |-> None, last_contact_date |-> None,
      linkedin_url |-> None, email |-> None]

BigRows == [i \in 1..BigN |-> BigRow(i)]

\* Industries and search texts the specifications choose from.
SaaS == <<83, 97, 97, 83>>

Energy == <<69, 110, 101, 114, 103, 121>>

\* "", " ", "doe", "ANN"
Queries == {<<>>, <<32>>, <<100, 111, 101>>, <<65, 78, 78>>}

-----------------------------------------------------------------------------
(* Specifications *)

\* A step that triggers no store call, and one that triggers one (at most
\* `most` of them in a behaviour).
Free(A) == A /\ issued' = issued /\ UNCHANGED <<uiVars, variant>>

Counted(A, most) ==
    issued < most /\ A /\ issued' = issued + 1 /\ UNCHANGED <<uiVars, variant>>

\* A step of a row click or of the copy and export buttons, which write their
\* own variables.
Ui(A) == A /\ issued' = issued /\ UNCHANGED variant

\* The first rows of the current page: the rows whose controls a specification
\* operates.
FirstRows(n) ==
    LET page == paginatedContacts
    IN  IF loading THEN {} ELSE {page[i] : i \in 1..Min(n, Len(page))}

ActiveCount ==
    Cardinality({f \in 1..6 :
        \/ f = 1 /\ statusFilter # "all"
        \/ f = 2 /\ assigneeFilter # "all"
        \/ f = 3 /\ outreachFilter # "all"
        \/ f = 4 /\ sizeFilter # "all"
        \/ f = 5 /\ industryFilter # IndustryAll
        \/ f = 6 /\ TrimTruthy(searchQuery)})

(* Spec: the three-contact collection; the user refreshes, claims, releases,
   expands the top row, edits outreach status and the notes of the expanded
   row, selects rows, bulk-claims and filters by
   assignee, while the store answers each call, in any order, with success or
   with an error, and midnight may pass. *)

\* At most this many store calls are triggered after mount.
MaxOps == 2

\* At most this many midnights pass.
MaxTicks == 1

\* How many rows of a page, counted from the top, are clicked to expand them
\* or have their checkbox operated.
ClickRows == 1

\* The rows of the current page, whose controls are rendered.
ShownRows == FirstRows(PAGE_SIZE)

\* Values the outreach dropdown and the notes field are set to.
OutreachChoices == {"request_sent", "connected"}

NoteTexts == {"call"}

\* c.notes || ''
NotesOf(c) == IF c.notes = None THEN "" ELSE c.notes[1]

\* The row's button is Claim when !contact.assigned_to and Release otherwise.
clickClaimOrRelease(c) ==
    IF c.assigned_to = None \/ c.assigned_to = Some("")
    THEN claimLead(c.id, Diego)
    ELSE unclaimLead(c.id)

\* The outreach <select> fires onChange for a value other than the one shown.
changeOutreach(c, status) ==
    /\ status # OutreachOf(c)
    /\ updateOutreachStatus(c.id, status)

\* onBlur of the notes field, page.tsx:756-764; the field is in the expanded
\* row, page.tsx:689.
blurNotes(c, text) ==
    /\ expandedId = Some(c.id)
    /\ text # NotesOf(c)
    /\ updateNotes(c.id, text)

\* Some call in flight carries a date: only then does it matter to the program
\* whether midnight passes now or later.
DateInFlight == \E i \in 1..Len(writes) : writes[i].date # None

Init == InitWith(SmallRows)

Next ==
    \/ \E i \in 1..Len(fetches) : \E ok \in BOOLEAN : Free(ServerFetch(i, ok))
    \/ \E i \in 1..Len(fetches) : Free(FetchDone(i))
    \/ Counted(fetchContacts, MaxOps)
    \/ \E c \in ShownRows : Counted(clickClaimOrRelease(c), MaxOps)
    \/ \E c \in ShownRows : \E status \in OutreachChoices :
           Counted(changeOutreach(c, status), MaxOps)
    \/ \E c \in FirstRows(ClickRows) : Ui(toggleExpand(c.id))
    \/ \E c \in ShownRows : \E text \in NoteTexts : Counted(blurNotes(c, text), MaxOps)
    \/ IF selectedIds = {} THEN Free(bulkClaim(Diego))
                           ELSE Counted(bulkClaim(Diego), MaxOps)
    \/ \E i \in 1..Len(writes) : \E ok \in BOOLEAN : Free(ServerWrite(i, ok))
    \/ \E i \in 1..Len(writes) : Free(WriteDone(i))
    \/ \E c \in ShownRows : Free(toggleSelect(c.id))
    \/ Free(toggleSelectAll)
    \/ \E v \in {"all", Diego, "unassigned"} : Free(setAssigneeFilter(v))
    \/ today <= MaxTicks /\ DateInFlight /\ Free(Tick)

Spec == Init /\ [][Next]_allVars

(* SpecFilter: the eight-contact collection (or none of it) is loaded and the
   six filters take every combination of their values. *)

FilterInit == \E n \in {0, Len(FilterRows)} : InitWith(SubSeq(FilterRows, 1, n))

FilterNext ==
    \/ Free(ServerFetch(1, TRUE))
    \/ Free(FetchDone(1))
    \/ \E v \in {"all"} \cup StatusValues : Free(setStatusFilter(v))
    \/ \E v \in StatusValues : Free(clickTile(v))
    \/ \E v \in {"all", Diego, "unassigned"} : Free(setAssigneeFilter(v))
    \/ \E v \in {"all"} \cup OutreachValues : Free(setOutreachFilter(v))
    \/ \E v \in {"all", "small", "medium", "large", "enterprise"} :
           Free(setSizeFilter(v))
    \/ \E v \in IndustryOptions : Free(setIndustryFilter(v))
    \/ \E q \in Queries : Free(setSearchQuery(q))
    \/ Free(clearAllFilters)

SpecFilter == FilterInit /\ [][FilterNext]_allVars

(* SpecPage: the large collection is loaded; the user pages through it, selects
   rows, sorts, and sets at most MaxActive filters at a time. *)

MaxActive == 1

PageInit == InitWith(BigRows)

PageNext ==
    \/ Free(ServerFetch(1, TRUE))
    \/ Free(FetchDone(1))
    \/ \E v \in {"all", "hot", "mql"} : Free(setStatusFilter(v)) /\ ActiveCount' <= MaxActive
    \/ \E v \in {"all", Diego, "unassigned"} :
           Free(setAssigneeFilter(v)) /\ ActiveCount' <= MaxActive
    \/ \E v \in {"all", "not_contacted"} :
           Free(setOutreachFilter(v)) /\ ActiveCount' <= MaxActive
    \/ \E v \in {"all", "small"} : Free(setSizeFilter(v)) /\ ActiveCount' <= MaxActive
    \/ \E v \in {IndustryAll, SaaS} :
           Free(setIndustryFilter(v)) /\ ActiveCount' <= MaxActive
    \/ \E q \in {<<>>, <<76>>} : Free(setSearchQuery(q)) /\ ActiveCount' <= MaxActive
    \/ Free(clearAllFilters)
    \/ \E field \in {"total_score", "employee_count"} : Free(toggleSort(field))
    \/ Free(prevPage)
    \/ Free(nextPage)
    \/ \E p \in 1..CeilDiv(BigN, PAGE_SIZE) : Free(gotoPage(p))
    \/ Free(toggleSelectAll)
    \/ \E c \in FirstRows(ClickRows) : Free(toggleSelect(c.id))

SpecPage == PageInit /\ [][PageNext]_allVars

-----------------------------------------------------------------------------
(* Claims *)

\* What each filter value asks of a contact, as the specification states it.
SatisfiesStatus(c) == statusFilter # "all" => c.status = statusFilter

SatisfiesAssignee(c) ==
    /\ assigneeFilter = "unassigned" => c.assigned_to = None
    /\ assigneeFilter \notin {"all", "unassigned"} =>
           c.assigned_to = Some(assigneeFilter)

SatisfiesOutreach(c) ==
    outreachFilter # "all" =>
        \/ c.outreach_status = Some(outreachFilter)
        \/ c.outreach_status = None /\ outreachFilter = "not_contacted"

EmployeesOf(c) == IF c.employee_count = None THEN 0 ELSE c.employee_count[1]

SatisfiesSize(c) ==
    /\ sizeFilter = "small" => EmployeesOf(c) \in 0..499
    /\ sizeFilter = "medium" => EmployeesOf(c) \in 500..4999
    /\ sizeFilter = "large" => EmployeesOf(c) \in 5000..49999
    /\ sizeFilter = "enterprise" => EmployeesOf(c) >= 50000

SatisfiesIndustry(c) ==
    industryFilter # IndustryAll => c.industry = Some(industryFilter)

\* Some field among name, company_name, title holds the search text, letter
\* case aside.
SatisfiesSearch(c) ==
    TrimTruthy(searchQuery) =>
        \E field \in {Some(c.name), c.company_name, c.title} :
            /\ field # None
            /\ \E k \in 0..Len(field[1]) : \E n \in 0..Len(field[1]) :
                   /\ k + n <= Len(field[1])
                   /\ toLowerCase(SubSeq(field[1], k + 1, k + n)) =
                          toLowerCase(searchQuery)

\* The ids of the result with one of the six filters relaxed.
RelaxedIds(f) ==
    Ids(Filter(allContacts,
               IF f = 1 THEN "all" ELSE statusFilter,
               IF f = 2 THEN "all" ELSE assigneeFilter,
               IF f = 3 THEN "all" ELSE outreachFilter,
               IF f = 4 THEN "all" ELSE sizeFilter,
               IF f = 5 THEN IndustryAll ELSE industryFilter,
               IF f = 6 THEN <<>> ELSE searchQuery))

\* C1: the filtered result holds only contacts of the collection, each at most
\* once and each satisfying every active filter, and relaxing any one filter
\* to 'all' (the search to empty) loses no contact of the result.
C1_FilterSoundAndMonotone ==
    /\ \A i \in 1..Len(filteredContacts) :
           /\ \E j \in 1..Len(allContacts) : allContacts[j] = filteredContacts[i]
           /\ \A k \in 1..Len(filteredContacts) :
                  filteredContacts[k].id = filteredContacts[i].id => k = i
           /\ SatisfiesStatus(filteredContacts[i])
           /\ SatisfiesAssignee(filteredContacts[i])
           /\ SatisfiesOutreach(filteredContacts[i])
           /\ SatisfiesSize(filteredContacts[i])
           /\ SatisfiesIndustry(filteredContacts[i])
           /\ SatisfiesSearch(filteredContacts[i])
    /\ \A f \in 1..6 : Ids(filteredContacts) \subseteq RelaxedIds(f)

\* Three filters and the search are active at once, some contact passes them
\* all and some contact is filtered out.
C1_Witness ==
    /\ statusFilter # "all"
    /\ assigneeFilter # "all"
    /\ sizeFilter # "all"
    /\ TrimTruthy(searchQuery)
    /\ Len(filteredContacts) > 0
    /\ Len(filteredContacts) < Len(allContacts)


\* The contacts of `contacts` that write w targets hold the value w carries in
\* the field w is about.
ShowsValue(contacts, w) ==
    \A k \in 1..Len(contacts) :
        contacts[k].id \in w.ids =>
            CASE w.op \in {"claim", "unclaim", "bulk"} -> contacts[k].assigned_to = w.val
              [] w.op = "outreach" -> contacts[k].outreach_status = Some(w.val)
              [] w.op = "notes" -> contacts[k].notes = Some(w.val)

\* C2 as stated: when the handler of a failed write resumes, the local
\* collection shows the operation's new value.
C2_FailedWriteShowsNewValue ==
    [][\A i \in 1..Len(writes) :
          (writes[i].st = "err" /\ WriteDone(i)) => ShowsValue(allContacts', writes[i])]_vars

\* C2, amended: when the remote write of a mutating operation fails, the local
\* collection and the selection are left exactly as they were; the new value
\* is applied locally only when the write succeeds, so nothing is rolled back.
C2_FailedWriteLeavesLocalUnchanged ==
    [][\A i \in 1..Len(writes) :
          (writes[i].st = "err" /\ WriteDone(i)) =>
              /\ allContacts' = allContacts
              /\ selectedIds' = selectedIds
              /\ remote' = remote]_vars

\* A failed write is about to be handled while the contact it targets is shown
\* with its old value.
C2_Witness ==
    \E i \in 1..Len(writes) :
        /\ writes[i].st = "err"
        /\ \E k \in 1..Len(allContacts) : allContacts[k].id \in writes[i].ids
        /\ ~ShowsValue(allContacts, writes[i])

\* C3: when the handler of a successful assign, unassign, setOutreachStatus or
\* setNotes resumes, the targeted contact of the local collection holds the
\* written value; no step of a mutating operation issues a fetch or turns the
\* loading flag on, and a fetch is issued only by fetchContacts (mount, Refresh).
C3_SuccessAppliedLocallyWithoutFetch ==
    [][/\ \A i \in 1..Len(writes) :
             (/\ writes[i].st = "ok"
              /\ writes[i].op \in {"claim", "unclaim", "outreach", "notes"}
              /\ WriteDone(i)) =>
                 /\ ShowsValue(allContacts', writes[i])
                 /\ Len(allContacts') = Len(allContacts)
       /\ writes' # writes => fetches' = fetches /\ loading' = loading
       /\ Len(fetches') > Len(fetches) => fetchContacts]_vars

\* A successful single-contact write is about to be handled, its contact is in
\* the local collection with another value, and no fetch is in flight.
C3_Witness ==
    \E i \in 1..Len(writes) :
        /\ writes[i].st = "ok"
        /\ writes[i].op \in {"claim", "unclaim", "outreach", "notes"}
        /\ \E k \in 1..Len(allContacts) : allContacts[k].id \in writes[i].ids
        /\ ~ShowsValue(allContacts, writes[i])
        /\ fetches = <<>>


\* The tiles over a large single-status collection and over a mixed one, while
\* the status filter, the tiles, the assignee filter, the search, the sort and
\* the page change.
MqlN == 120

MqlRows == [i \in 1..MqlN |-> BigRow(i)]

TilesInit == \E rows \in {MqlRows, FilterRows} : InitWith(rows)

TilesNext ==
    \/ Free(ServerFetch(1, TRUE))
    \/ Free(FetchDone(1))
    \/ \E v \in {"all"} \cup StatusValues : Free(setStatusFilter(v))
    \/ \E v \in StatusValues : Free(clickTile(v))
    \/ \E v \in {"all", Diego, "unassigned"} : Free(setAssigneeFilter(v))
    \/ \E q \in {<<>>, <<76>>} : Free(setSearchQuery(q))
    \/ Free(toggleSort("total_score"))
    \/ Free(prevPage)
    \/ Free(nextPage)

SpecTiles == TilesInit /\ [][TilesNext]_allVars

\* The fields of a contact that no handler of the component writes.
ReadOnlyPart(c) ==
    <<c.id, c.status, c.firmographic_score, c.title_score, c.engagement_score,
      c.total_score, c.name, c.title, c.company_name, c.industry, c.employee_count>>

\* The workflow fields of a contact other than the ones write w is about.
UntargetedPart(c, w) ==
    CASE w.op \in {"claim", "unclaim", "bulk"} ->
            <<c.outreach_status, c.notes, c.last_contact_date>>
      [] w.op = "outreach" /\ w.val = "request_sent" -> <<c.assigned_to, c.notes>>
      [] w.op = "outreach" /\ w.val # "request_sent" ->
            <<c.assigned_to, c.notes, c.last_contact_date>>
      [] w.op = "notes" -> <<c.assigned_to, c.outreach_status, c.last_contact_date>>

\* Going from collection `before` to `after` keeps the contacts and their order,
\* and changes at most the fields write w is about, of the contacts it targets.
FrameKept(before, after, w) ==
    /\ Len(after) = Len(before)
    /\ \A k \in 1..Len(before) :
           /\ ReadOnlyPart(after[k]) = ReadOnlyPart(before[k])
           /\ UntargetedPart(after[k], w) = UntargetedPart(before[k], w)
           /\ before[k].id \notin w.ids => after[k] = before[k]

\* C4: every step of a mutating operation (the call, the store's answer, the
\* handler resuming after success or failure) leaves the local sequence of ids
\* and every contact's status, sub-scores and total_score as they were; only
\* the targeted workflow field of the targeted contacts may change.
C4_MutationFrame ==
    [][/\ \A i \in 1..Len(writes) : WriteDone(i) => FrameKept(allContacts, allContacts', writes[i])
       /\ (writes' # writes /\ Len(writes') >= Len(writes)) => allContacts' = allContacts]_vars

\* A successful write is about to be handled; it targets one contact of the
\* collection and not another.
C4_Witness ==
    \E i \in 1..Len(writes) :
        /\ writes[i].st = "ok"
        /\ \E k \in 1..Len(allContacts) : allContacts[k].id \in writes[i].ids
        /\ \E k \in 1..Len(allContacts) : allContacts[k].id \notin writes[i].ids
        /\ ~ShowsValue(allContacts, writes[i])

\* C5: a step that changes statusFilter, assigneeFilter, outreachFilter,
\* sizeFilter, industryFilter, searchQuery, sortField or sortDirection ends on
\* page 1 with an empty selection.
C5_ViewChangeResets ==
    [][<<filterVars, sortVars>>' # <<filterVars, sortVars>> =>
          currentPage' = 1 /\ selectedIds' = {}]_vars

\* The user is on a later page with rows selected, under a filter and a sort
\* other than the defaults.
C5_Witness ==
    /\ currentPage > 1
    /\ selectedIds # {}
    /\ hasActiveFilters
    /\ sortDirection = "asc"

\* C6 as stated: every selected id is the id of a contact of the current
\* filtered result.
C6_SelectionWithinFiltered == selectedIds \subseteq Ids(filteredContacts)

\* C7 as stated: toggleSelectAll selects exactly the current page unless every
\* contact of the page is already selected, and then clears the selection.
C7_ToggleSelectAllByPage ==
    [][toggleSelectAll =>
          selectedIds' = IF Ids(paginatedContacts) \subseteq selectedIds
                         THEN {} ELSE Ids(paginatedContacts)]_vars

\* C8: bulkAssign on an empty selection sends nothing and changes nothing;
\* otherwise it sends the selected ids, and when its handler resumes after
\* success every contact with one of those ids is assigned to the assignee, no
\* other contact's assigned_to changes and the selection is empty; after a
\* failure the selection is kept.
C8_BulkAssign ==
    [][/\ bulkClaim(Diego) =>
             IF selectedIds = {} THEN UNCHANGED vars
             ELSE /\ Len(writes') = Len(writes) + 1
                  /\ writes'[Len(writes')].op = "bulk"
                  /\ writes'[Len(writes')].ids = selectedIds
                  /\ writes'[Len(writes')].val = Some(Diego)
       /\ \A i \in 1..Len(writes') : writes'[i].op = "bulk" => writes'[i].ids # {}
       /\ \A i \in 1..Len(writes) :
             (writes[i].op = "bulk" /\ WriteDone(i)) =>
                 IF writes[i].st = "ok"
                 THEN /\ selectedIds' = {}
                      /\ Len(allContacts') = Len(allContacts)
                      /\ \A k \in 1..Len(allContacts) :
                             allContacts'[k].assigned_to =
                                 IF allContacts[k].id \in writes[i].ids
                                 THEN writes[i].val
                                 ELSE allContacts[k].assigned_to
                 ELSE selectedIds' = selectedIds /\ allContacts' = allContacts]_vars

\* A successful bulk write of two ids is about to be handled while an
\* unassigned contact is among them, a third contact is not, and rows are
\* selected.
C8_Witness ==
    \E i \in 1..Len(writes) :
        /\ writes[i].op = "bulk"
        /\ writes[i].st = "ok"
        /\ Cardinality(writes[i].ids) = 2
        /\ selectedIds # {}
        /\ \E k \in 1..Len(allContacts) :
               allContacts[k].id \in writes[i].ids /\ allContacts[k].assigned_to = None
        /\ \E k \in 1..Len(allContacts) : allContacts[k].id \notin writes[i].ids

\* C9 as stated: setOutreachStatus(id, s) sets outreach_status to s; for s =
\* request_sent it sets last_contact_date to today's date, and otherwise leaves
\* it; the values applied locally are the values sent in the remote write.
C9_OutreachAndDate ==
    [][\A i \in 1..Len(writes) :
          (writes[i].op = "outreach" /\ writes[i].st = "ok" /\ WriteDone(i)) =>
              \A k \in 1..Len(allContacts) :
                  allContacts[k].id \in writes[i].ids =>
                      /\ allContacts'[k].outreach_status = Some(writes[i].val)
                      /\ allContacts'[k].last_contact_date =
                             IF writes[i].val = "request_sent"
                             THEN Some(today)
                             ELSE allContacts[k].last_contact_date
                      /\ writes[i].val = "request_sent" =>
                             allContacts'[k].last_contact_date = writes[i].date]_vars

\* C10: each status tile counts the contacts of the whole collection with that
\* status (what the status filter alone would show), whatever the filters,
\* search, sort and page are, and the four tiles add up to the collection size
\* when every contact has one of the four statuses.
C10_TilesCountWholeCollection ==
    /\ \A st \in StatusValues :
           statsCounts[st] =
               Len(Filter(allContacts, st, "all", "all", "all", IndustryAll, <<>>))
    /\ (\A k \in 1..Len(allContacts) : allContacts[k].status \in StatusValues) =>
           statsCounts.hot + statsCounts.sql + statsCounts.mql + statsCounts.nurture
               = Len(allContacts)


\* The 120 mql contacts are loaded, the status filter is hot and the table is
\* empty, while the mql tile reads 120.
C10_Witness ==
    /\ Len(allContacts) = MqlN
    /\ statusFilter = "hot"
    /\ filteredContacts = <<>>
    /\ statsCounts.mql = MqlN
    /\ statsCounts.hot = 0


\* Pages 1..p of a result, one after the other.
RECURSIVE ConcatPages(_, _)
ConcatPages(result, p) ==
    IF p = 0 THEN <<>> ELSE ConcatPages(result, p - 1) \o PageOf(result, p)

\* C11: for the filtered result of every state, of length n, the page count is
\* ceil(n/50), pages 1..ceil(n/50) one after the other are the filtered and
\* sorted result itself, every page but the last holds 50 contacts, and the
\* last holds n mod 50, or 50 when n is a positive multiple of 50.
C11_PagesPartitionResult ==
    LET result == filteredContacts
        n == Len(result)
        pages == TotalPagesOf(result)
    IN  /\ pages = IF n % PAGE_SIZE = 0 THEN n \div PAGE_SIZE ELSE (n \div PAGE_SIZE) + 1
        /\ ConcatPages(result, pages) = result
        /\ \A p \in 1..pages :
               Len(PageOf(result, p)) =
                   IF p < pages \/ n % PAGE_SIZE = 0 THEN PAGE_SIZE ELSE n % PAGE_SIZE
        /\ currentPage \in 1..pages => paginatedContacts = PageOf(result, currentPage)

\* The user is on the last of several pages, and that page is not full.
C11_Witness ==
    /\ ~loading
    /\ totalPages > 1
    /\ currentPage = totalPages
    /\ Len(filteredContacts) % PAGE_SIZE # 0
    /\ Len(paginatedContacts) = Len(filteredContacts) % PAGE_SIZE


(* SpecPageEdit: the large collection, paged through under the assignee filter
   while the first row of the page is claimed or released and the store
   answers. *)

\* At most this many claims and releases are triggered.
MaxEdits == 2

PageEditInit == InitWith(BigRows)

PageEditNext ==
    \/ Free(ServerFetch(1, TRUE))
    \/ Free(FetchDone(1))
    \/ \E v \in {"all", "unassigned"} : Free(setAssigneeFilter(v))
    \/ Free(prevPage)
    \/ Free(nextPage)
    \/ \E c \in FirstRows(ClickRows) : Counted(clickClaimOrRelease(c), MaxEdits)
    \/ \E i \in 1..Len(writes) : \E ok \in BOOLEAN : Free(ServerWrite(i, ok))
    \/ \E i \in 1..Len(writes) : Free(WriteDone(i))

SpecPageEdit == PageEditInit /\ [][PageEditNext]_allVars

\* C12 as stated: whenever the filtered result is not empty, currentPage is
\* one of the pages 1..ceil(count/50) of it.
C12_PageWithinRange ==
    filteredContacts # <<>> => currentPage \in 1..totalPages


(* SpecExport: three contacts to export.  1 is "Doe, Jane", "VP, Sales" at
   "Acme, Inc" (commas in three fields); 2 is 'Roe, "JR"' (a comma and double
   quotes in the name) with no title, company, industry, employee count, URL
   or email; 3 is "Ann Lee" with an employee count of 0.  The user filters by
   assignee, sorts, selects rows, claims a row and exports. *)
CsvRows ==
    <<[id |-> 1, name |-> <<68, 111, 101, 44, 32, 74, 97, 110, 101>>,
      title |-> Some(<<86, 80, 44, 32, 83, 97, 108, 101, 115>>), company_name |-> Some(<<65, 99, 109, 101, 44, 32, 73, 110, 99>>),
      industry |-> Some(<<83, 97, 97, 83>>), employee_count |-> Some(500),
      firmographic_score |-> 10, title_score |-> 10, engagement_score |-> 10,
      total_score |-> 90, status |-> "hot", outreach_status |-> None,
      assigned_to |-> None, notes |-> None, last_contact_date |-> None,
      linkedin_url |-> Some(<<108, 105, 47, 106, 100>>), email |-> Some(<<106, 64, 120, 46, 105, 111>>)],
      [id |-> 2, name |-> <<82, 111, 101, 44, 32, 34, 74, 82, 34>>,
      title |-> None, company_name |-> None,
      industry |-> None, employee_count |-> None,
      firmographic_score |-> 10, title_score |-> 10, engagement_score |-> 10,
      total_score |-> 70, status |-> "sql", outreach_status |-> None,
      assigned_to |-> None, notes |-> None, last_contact_date |-> None,
      linkedin_url |-> None, email |-> None],
      [id |-> 3, name |-> <<65, 110, 110, 32, 76, 101, 101>>,
      title |-> Some(<<67, 84, 79>>), company_name |-> Some(<<71, 108, 111, 98, 101, 120>>),
      industry |-> Some(<<69, 110, 101, 114, 103, 121>>), employee_count |-> Some(0),
      firmographic_score |-> 10, title_score |-> 10, engagement_score |-> 10,
      total_score |-> 40, status |-> "mql", outreach_status |-> None,
      assigned_to |-> Some("diego"), notes |-> None, last_contact_date |-> None,
      linkedin_url |-> None, email |-> Some(<<97, 64, 103, 46, 99, 111>>)]>>

\* At most this many claims are triggered.
MaxClaims == 1

ExportInit == InitWith(CsvRows)

ExportNext ==
    \/ Free(ServerFetch(1, TRUE))
    \/ Free(FetchDone(1))
    \/ \E v \in {"all", "unassigned"} : Free(setAssigneeFilter(v))
    \/ \E field \in {"name", "total_score"} : Free(toggleSort(field))
    \/ \E c \in ShownRows : Free(toggleSelect(c.id))
    \/ Free(toggleSelectAll)
    \/ \E c \in ShownRows : Counted(clickClaimOrRelease(c), MaxClaims)
    \/ \E i \in 1..Len(writes) : Free(ServerWrite(i, TRUE))
    \/ \E i \in 1..Len(writes) : Free(WriteDone(i))
    \/ Ui(exportSelected)

SpecExport == ExportInit /\ [][ExportNext]_allVars


\* C13 as stated: the exported file is the header row followed by one row per
\* contact of the export set, in filtered and sorted order; with a non-empty
\* selection the export set is the contacts whose ids are selected, one row for
\* every selected id, and otherwise it is the whole filtered result.
C13_ExportOneRowPerContact ==
    [][exportSelected =>
          LET chosen == SelectSeq(allContacts, LAMBDA c : c.id \in selectedIds)
              expected == IF selectedIds # {}
                          THEN Sort(chosen, sortField, sortDirection)
                          ELSE filteredContacts
          IN  /\ download'[1].text = CsvText(expected)
              /\ selectedIds # {} => Len(expected) = Cardinality(selectedIds)]_vars

\* A quoted-field CSV reader: a field that starts with a double quote runs to
\* its closing quote, "" inside it is one quote, commas and line feeds inside
\* it are text; elsewhere a comma ends the field and a line feed ends the row.
EndField(st) ==
    [st EXCEPT !.row = Append(st.row, st.field), !.field = <<>>, !.mode = "start"]

EndRow(st) ==
    LET e == EndField(st)
    IN  [e EXCEPT !.rows = Append(e.rows, e.row), !.row = <<>>]

ReadUnit(st, u) ==
    CASE st.mode = "start" ->
            IF u = 34 THEN [st EXCEPT !.mode = "quoted"]
            ELSE IF u = 44 THEN EndField(st)
            ELSE IF u = 10 THEN EndRow(st)
            ELSE [st EXCEPT !.field = <<u>>, !.mode = "plain"]
      [] st.mode = "plain" ->
            IF u = 44 THEN EndField(st)
            ELSE IF u = 10 THEN EndRow(st)
            ELSE [st EXCEPT !.field = Append(st.field, u)]
      [] st.mode = "quoted" ->
            IF u = 34 THEN [st EXCEPT !.mode = "closing"]
            ELSE [st EXCEPT !.field = Append(st.field, u)]
      [] st.mode = "closing" ->
            IF u = 34 THEN [st EXCEPT !.field = Append(st.field, u), !.mode = "quoted"]
            ELSE IF u = 44 THEN EndField(st)
            ELSE IF u = 10 THEN EndRow(st)
            ELSE [st EXCEPT !.field = Append(st.field, u), !.mode = "plain"]

\* The reader's state after units lo..hi of the text, from state st (halving
\* the range keeps the evaluation shallow; st is looked at first so that it is
\* computed before the range is entered).
RECURSIVE ReadRange(_, _, _, _)
ReadRange(st, text, lo, hi) ==
    IF st.mode = "" THEN st
    ELSE IF lo = hi THEN ReadUnit(st, text[lo])
    ELSE LET mid == (lo + hi) \div 2
         IN  ReadRange(ReadRange(st, text, lo, mid), text, mid + 1, hi)

ParseCsv(text) ==
    IF text = <<>> THEN <<>>
    ELSE EndRow(ReadRange([rows |-> <<>>, row |-> <<>>, field |-> <<>>, mode |-> "start"],
                          text, 1, Len(text))).rows

HasComma(s) == \E i \in 1..Len(s) : s[i] = 44

HasCommaField(c) ==
    \/ HasComma(c.name)
    \/ HasComma(OrEmpty(c.title))
    \/ HasComma(OrEmpty(c.company_name))
    \/ HasComma(OrEmpty(c.industry))

\* The file read back is the header and one row of nine fields whose four text
\* fields are the contact's.
ReadsBackAs(text, c) ==
    LET parsed == ParseCsv(text)
    IN  /\ Len(parsed) = 2
        /\ parsed[1] = CsvHeader
        /\ Len(parsed[2]) = 9
        /\ parsed[2][1] = c.name
        /\ parsed[2][2] = OrEmpty(c.title)
        /\ parsed[2][3] = OrEmpty(c.company_name)
        /\ parsed[2][4] = OrEmpty(c.industry)

\* C14 as stated: when one contact with a comma in its name, title, company or
\* industry is exported, reading the file back gives the header and exactly
\* one row of nine fields, with the text fields equal to the contact's.
C14_CsvRoundTrip ==
    [][exportSelected =>
          LET set == ExportSet(filteredContacts, selectedIds)
          IN  (Len(set) = 1 /\ HasCommaField(set[1])) =>
                  ReadsBackAs(download'[1].text, set[1])]_vars


(* SpecSort: the eight-contact collection sorted by every column in both
   directions, under the status filter and the search. *)

SortInit == InitWith(FilterRows)

SortNext ==
    \/ Free(ServerFetch(1, TRUE))
    \/ Free(FetchDone(1))
    \/ \E field \in SortFields : Free(toggleSort(field))
    \/ \E v \in {"all", "hot", "sql", "nurture"} : Free(setStatusFilter(v))
    \/ \E q \in Queries : Free(setSearchQuery(q))

SpecSort == SortInit /\ [][SortNext]_allVars

\* The key a column sorts by: text without regard to case, a missing text as
\* the empty text, a missing number as 0.
FoldedKey(c, field) ==
    LET raw == CASE field = "name" -> c.name
                 [] field = "title" -> IF c.title = None THEN <<>> ELSE c.title[1]
                 [] field = "company_name" ->
                        IF c.company_name = None THEN <<>> ELSE c.company_name[1]
                 [] field = "employee_count" ->
                        IF c.employee_count = None THEN 0 ELSE c.employee_count[1]
                 [] field = "total_score" -> c.total_score
    IN  IF field \in {"employee_count", "total_score"} THEN raw
        ELSE [i \in 1..Len(raw) |->
                 IF raw[i] \in 65..90 THEN raw[i] + 32 ELSE raw[i]]

KeyBefore(a, b, field) ==
    IF field \in {"employee_count", "total_score"}
    THEN FoldedKey(a, field) < FoldedKey(b, field)
    ELSE StrLess(FoldedKey(a, field), FoldedKey(b, field))

PositionIn(s, id) == CHOOSE i \in 1..Len(s) : s[i].id = id

Reverse(s) == [i \in 1..Len(s) |-> s[Len(s) + 1 - i]]

\* C15: the displayed result holds the contacts that pass the filters, ordered
\* by the folded key of sortField in sortDirection; contacts with equal keys
\* keep the order they have in the collection; and when no two keys are equal
\* the result in the other direction is the exact reverse.
C15_SortStableAndSymmetric ==
    LET F == Filter(allContacts, statusFilter, assigneeFilter, outreachFilter,
                    sizeFilter, industryFilter, searchQuery)
        R == filteredContacts
        other == IF sortDirection = "asc" THEN "desc" ELSE "asc"
    IN  /\ Len(R) = Len(F)
        /\ Ids(R) = Ids(F)
        /\ \A i, j \in 1..Len(R) :
               i < j =>
                   /\ IF sortDirection = "asc"
                      THEN ~KeyBefore(R[j], R[i], sortField)
                      ELSE ~KeyBefore(R[i], R[j], sortField)
                   /\ FoldedKey(R[i], sortField) = FoldedKey(R[j], sortField) =>
                          PositionIn(F, R[i].id) < PositionIn(F, R[j].id)
        /\ (\A i, j \in 1..Len(F) :
               i # j => FoldedKey(F[i], sortField) # FoldedKey(F[j], sortField)) =>
                   Sort(F, sortField, other) = Reverse(R)

\* The whole collection is shown by company, ascending: two contacts whose
\* companies differ only in case are in collection order, a contact without a
\* company comes first, and a lower-case company name precedes an upper-case
\* one that follows it alphabetically.
C15_Witness ==
    /\ sortField = "company_name"
    /\ sortDirection = "asc"
    /\ Len(filteredContacts) = Len(FilterRows)
    /\ filteredContacts[1].company_name = None
    /\ \E i, j \in 1..Len(filteredContacts) :
           /\ i < j
           /\ filteredContacts[i].company_name # filteredContacts[j].company_name
           /\ FoldedKey(filteredContacts[i], "company_name") =
                  FoldedKey(filteredContacts[j], "company_name")
    /\ \E i, j \in 1..Len(filteredContacts) :
           /\ i < j
           /\ filteredContacts[i].company_name # None
           /\ filteredContacts[j].company_name # None
           /\ filteredContacts[i].company_name[1][1] > filteredContacts[j].company_name[1][1]


\* The bucket a number of employees falls in.
BucketOf(count) ==
    IF count < 500 THEN "small"
    ELSE IF count < 5000 THEN "medium"
    ELSE IF count < 50000 THEN "large"
    ELSE "enterprise"

SizeNames == {"small", "medium", "large", "enterprise"}

\* C16: under every size filter the contacts that pass are those whose
\* employee_count (0 when missing) falls in that bucket, so every contact
\* passes exactly one of small, medium, large and enterprise; 499 and a
\* missing count are small, 500 and 4999 medium, 5000 and 49999 large, 50000
\* enterprise.
C16_SizeBucketsPartition ==
    /\ \A k \in 1..Len(allContacts) :
           LET c == allContacts[k]
               count == IF c.employee_count = None THEN 0 ELSE c.employee_count[1]
           IN  /\ {zf \in SizeNames : SizePass(c, zf)} = {BucketOf(count)}
               /\ SizePass(c, "all")
    /\ \A zf \in SizeNames :
           /\ SizeBucket(499, zf) <=> zf = "small"
           /\ SizeBucket(0, zf) <=> zf = "small"
           /\ SizeBucket(500, zf) <=> zf = "medium"
           /\ SizeBucket(4999, zf) <=> zf = "medium"
           /\ SizeBucket(5000, zf) <=> zf = "large"
           /\ SizeBucket(49999, zf) <=> zf = "large"
           /\ SizeBucket(50000, zf) <=> zf = "enterprise"
    /\ sizeFilter \in SizeNames =>
           \A k \in 1..Len(filteredContacts) :
               BucketOf(IF filteredContacts[k].employee_count = None THEN 0
                        ELSE filteredContacts[k].employee_count[1]) = sizeFilter

\* Only the medium filter is active and the table shows exactly the contacts
\* with 500 and 4999 employees, while one with 5000 is in the collection.
C16_Witness ==
    /\ sizeFilter = "medium"
    /\ ActiveCount = 1
    /\ {filteredContacts[k].employee_count : k \in 1..Len(filteredContacts)} =
           {Some(500), Some(4999)}
    /\ \E k \in 1..Len(allContacts) : allContacts[k].employee_count = Some(5000)
    /\ \E k \in 1..Len(allContacts) : allContacts[k].employee_count = None


\* The field a write is about.
FieldOf(w) ==
    CASE w.op \in {"claim", "unclaim", "bulk"} -> "assigned_to"
      [] w.op = "outreach" -> "outreach_status"
      [] w.op = "notes" -> "notes"

\* Two writes that target different contacts or different fields.
Apart(w1, w2) == w1.ids \cap w2.ids = {} \/ FieldOf(w1) # FieldOf(w2)

\* Every write of one contact the handlers can make.
SingleWrites ==
    {Write(op, {id}, val, None) :
        op \in {"claim"}, id \in Ids(allContacts), val \in {Some(Diego)}}
    \cup {Write(op, {id}, val, None) :
        op \in {"unclaim"}, id \in Ids(allContacts), val \in {None}}
    \cup {Write(op, {id}, val, None) :
        op \in {"outreach"}, id \in Ids(allContacts), val \in OutreachValues}
    \cup {Write(op, {id}, val, None) :
        op \in {"notes"}, id \in Ids(allContacts), val \in NoteTexts}

\* C17: when the handler of a successful write resumes, the collection shows
\* its value, keeps showing the value of every write to another contact or to
\* another field that it showed before, and the other calls stay in flight, to
\* be applied the same way when their responses arrive, whatever the order.
C17_ConcurrentWritesBothKept ==
    [][\A i \in 1..Len(writes) :
          (/\ writes[i].st = "ok"
           /\ writes[i].op \in {"claim", "unclaim", "outreach", "notes"}
           /\ WriteDone(i)) =>
              /\ ShowsValue(allContacts', writes[i])
              /\ \A w \in SingleWrites :
                     (Apart(writes[i], w) /\ ShowsValue(allContacts, w)) =>
                         ShowsValue(allContacts', w)
              /\ writes' = RemoveAt(writes, i)]_vars

\* Two successful writes to different fields of the same contact are in
\* flight, neither applied locally yet.
C17_Witness ==
    /\ Len(writes) = 2
    /\ writes[1].st = "ok"
    /\ writes[2].st = "ok"
    /\ writes[1].ids = writes[2].ids
    /\ FieldOf(writes[1]) # FieldOf(writes[2])
    /\ ~ShowsValue(allContacts, writes[1])
    /\ ~ShowsValue(allContacts, writes[2])


\* C18 as stated: when the handler of a failed fetch resumes, the loading
\* indicator goes off and the displayed collection is empty.
C18_FailedFetchShowsEmpty ==
    [][\A i \in 1..Len(fetches) :
          (fetches[i].st = "err" /\ FetchDone(i)) =>
              loading' = FALSE /\ allContacts' = <<>>]_vars

\* C18: when the handler of a failed fetch resumes, the loading indicator goes
\* off, the collection is left as it was (empty after a failed first load, the
\* contacts loaded before after a failed refresh), and no fetch is issued; a
\* fetch is issued only by the Refresh button.
C18_FailedFetchKeepsCollection ==
    [][/\ \A i \in 1..Len(fetches) :
             (fetches[i].st = "err" /\ FetchDone(i)) =>
                 /\ loading' = FALSE
                 /\ allContacts' = allContacts
                 /\ Len(fetches') = Len(fetches) - 1
       /\ Len(fetches') > Len(fetches) => fetchContacts
       /\ (Len(fetches) = 0 /\ fetches' # fetches) => fetchContacts]_vars

\* A refresh has failed and its handler is about to resume, while the contacts
\* loaded before are in the collection.
C18_Witness ==
    /\ loading
    /\ allContacts # <<>>
    /\ Len(fetches) = 1
    /\ fetches[1].st = "err"


(* SpecCopy: the three-contact collection; the user expands rows and copies
   the note context, the clipboard accepts or refuses, the timers fire. *)

\* At most this many copies are pending (awaiting the clipboard or their timer).
MaxCopies == 2

CopyInit == InitWith(SmallRows)

CopyNext ==
    \/ Free(ServerFetch(1, TRUE))
    \/ Free(FetchDone(1))
    \/ \E c \in ShownRows : Ui(toggleExpand(c.id))
    \/ \E c \in ShownRows :
           Len(clips) + Len(timers) < MaxCopies /\ Ui(copyNoteContext(c))
    \/ \E i \in 1..Len(clips) : \E ok \in BOOLEAN : Ui(ClipboardDone(i, ok))
    \/ Ui(Timeout)

SpecCopy == CopyInit /\ [][CopyNext]_allVars

\* C19 as stated, its safety part: a completed copy sets the copied flag to
\* the contact's id, and the flag is cleared only by the timer that this copy
\* started, which is the newest timer.
C19_FlagLastsUntilOwnTimer ==
    [][/\ \A i \in 1..Len(clips) :
             (ClipboardDone(i, TRUE) /\ timers' # timers) => copiedId' = Some(clips[i])
       /\ (copiedId # None /\ copiedId' = None) => (Timeout /\ Len(timers) = 1)]_vars


\* C20: when the handler of unassign resumes, after success or failure, for a
\* contact whose assigned_to is null, the local collection is left equal to
\* what it was; and the call changes nothing locally when it is made.
C20_UnassignUnassignedIsNoOp ==
    [][/\ \A i \in 1..Len(writes) :
             (/\ writes[i].op = "unclaim"
              /\ \A k \in 1..Len(allContacts) :
                     allContacts[k].id \in writes[i].ids =>
                         allContacts[k].assigned_to = None
              /\ WriteDone(i)) => allContacts' = allContacts
       /\ \A id \in Ids(allContacts) : unclaimLead(id) => allContacts' = allContacts]_vars

\* A successful unassign is about to be applied to a contact that an earlier
\* unassign has already released.
C20_Witness ==
    \E i \in 1..Len(writes) :
        /\ writes[i].op = "unclaim"
        /\ writes[i].st = "ok"
        /\ \E k \in 1..Len(allContacts) :
               /\ allContacts[k].id \in writes[i].ids
               /\ allContacts[k].assigned_to = None
               /\ remote[k].assigned_to = None


\* The view a freshly mounted dashboard shows: no filter, no search, sorted by
\* total_score descending.
DefaultView ==
    /\ ~hasActiveFilters
    /\ sortField = "total_score"
    /\ sortDirection = "desc"

\* C21: in the default view the filtered result is the local collection, in
\* the order it was fetched, also after mutating operations have succeeded.
C21_DefaultViewIsFetchOrder == DefaultView => filteredContacts = allContacts

\* The default view shows the three contacts in fetch order after a successful
\* write has changed one of them locally.
C21_Witness ==
    /\ DefaultView
    /\ ~loading
    /\ Len(allContacts) = Len(SmallRows)
    /\ filteredContacts = allContacts
    /\ writes = <<>>
    /\ \E k \in 1..Len(allContacts) :
           /\ allContacts[k].id = SmallRows[k].id
           /\ allContacts[k] # SmallRows[k]


(* SpecRefresh: the three-contact collection is loaded and refreshed while
   contacts are deleted upstream and the user filters by industry and status. *)

\* At most this many refreshes are triggered.
MaxRefreshes == 2

RefreshInit == InitWith(SmallRows)

RefreshNext ==
    \/ \E i \in 1..Len(fetches) : Free(ServerFetch(i, TRUE))
    \/ \E i \in 1..Len(fetches) : Free(FetchDone(i))
    \/ Counted(fetchContacts, MaxRefreshes)
    \/ \E id \in Ids(remote) : Free(UpstreamDelete(id))
    \/ \E v \in IndustryOptions : Free(setIndustryFilter(v))
    \/ \E v \in {"all", "hot"} : Free(setStatusFilter(v))

SpecRefresh == RefreshInit /\ [][RefreshNext]_allVars

\* C22 as stated: industryFilter is 'all' or one of the industries of the
\* current local collection.
C22_IndustryFilterObserved == industryFilter \in IndustryOptions


\* The row of the store with the id of contact c.
RemoteRow(c) == remote[CHOOSE k \in 1..Len(remote) : remote[k].id = c.id]

\* The value of the field write w is about, in row c.
FieldValue(c, w) ==
    CASE FieldOf(w) = "assigned_to" -> c.assigned_to
      [] FieldOf(w) = "outreach_status" -> c.outreach_status
      [] FieldOf(w) = "notes" -> c.notes

\* C23 as stated: when the handler of a successful write resumes and no other
\* write is in flight (every write issued has completed), the targeted
\* contacts hold locally, in the written field, the value the store holds.
C23_LocalEqualsRemoteAfterBoth ==
    [][\A i \in 1..Len(writes) :
          (Len(writes) = 1 /\ writes[i].st = "ok" /\ WriteDone(i)) =>
              \A k \in 1..Len(allContacts') :
                  allContacts'[k].id \in writes[i].ids =>
                      FieldValue(allContacts'[k], writes[i]) =
                          FieldValue(RemoteRow(allContacts'[k]), writes[i])]_vars


\* The fields the handlers write.
WorkflowFields == {"assigned_to", "outreach_status", "notes", "last_contact_date"}

WorkflowValue(c, f) ==
    CASE f = "assigned_to" -> c.assigned_to
      [] f = "outreach_status" -> c.outreach_status
      [] f = "notes" -> c.notes
      [] f = "last_contact_date" -> c.last_contact_date

\* C24 as stated: when the response of a fetch arrives, a workflow field whose
\* local value is the store's current value (a successful write is shown) is
\* not put back to an older value.
C24_FetchDoesNotRevertWrite ==
    [][\A i \in 1..Len(fetches) :
          (fetches[i].st = "ok" /\ FetchDone(i)) =>
              \A k \in 1..Len(allContacts) : \A f \in WorkflowFields :
                  WorkflowValue(allContacts[k], f) =
                          WorkflowValue(RemoteRow(allContacts[k]), f) =>
                      \E j \in 1..Len(allContacts') :
                          /\ allContacts'[j].id = allContacts[k].id
                          /\ WorkflowValue(allContacts'[j], f) =
                                 WorkflowValue(allContacts[k], f)]_vars

\* C25 as stated: loading is true exactly while a fetch is in flight.
C25_LoadingWhileFetching == loading <=> fetches # <<>>

\* C26 as stated: when the handler of a successful bulkAssign resumes, exactly
\* the ids selected at its invocation are assigned and removed from the
\* selection; an id selected meanwhile stays selected and is not assigned.
C26_BulkAssignTouchesOnlyItsIds ==
    [][\A i \in 1..Len(writes) :
          (writes[i].op = "bulk" /\ writes[i].st = "ok" /\ WriteDone(i)) =>
              /\ selectedIds' = selectedIds \ writes[i].ids
              /\ \A k \in 1..Len(allContacts) :
                     allContacts'[k].assigned_to =
                         IF allContacts[k].id \in writes[i].ids
                         THEN writes[i].val
                         ELSE allContacts[k].assigned_to]_vars


\* C27: a click on the header of the current sort column flips sortDirection
\* and keeps sortField; a click on another column makes it the sortField, with
\* direction desc for total_score and employee_count and asc for name,
\* company_name and title; a second click on the same header then restores the
\* direction.
C27_ToggleSort ==
    [][\A field \in SortFields :
          toggleSort(field) =>
              /\ sortField' = field
              /\ sortDirection' =
                     IF field = sortField
                     THEN (IF sortDirection = "asc" THEN "desc" ELSE "asc")
                     ELSE IF field \in {"total_score", "employee_count"}
                          THEN "desc" ELSE "asc"
              /\ \A dir \in {"asc", "desc"} :
                     (field = sortField /\ sortDirection' = dir) =>
                         (IF dir = "asc" THEN "desc" ELSE "asc") = sortDirection
              /\ UNCHANGED <<filterVars, allContacts>>]_vars

\* The table is sorted by title, descending: the title header was clicked
\* twice.
C27_Witness ==
    /\ TableShown
    /\ sortField = "title"
    /\ sortDirection = "desc"


(* SpecPager: collections of 1 to PagerN contacts whose size is a multiple of
   the page size or one more, paged through with Previous, Next and the page
   buttons, in both directions of the default sort. *)

\* The largest collection: seven pages.
PagerN == 301

PagerSizes == {n \in 1..PagerN : n % PAGE_SIZE \in {0, 1}}

PagerInit == \E n \in PagerSizes : InitWith([i \in 1..n |-> BigRow(i)])

PagerNext ==
    \/ Free(ServerFetch(1, TRUE))
    \/ Free(FetchDone(1))
    \/ Free(prevPage)
    \/ Free(nextPage)
    \/ \E p \in 1..CeilDiv(PagerN, PAGE_SIZE) : Free(gotoPage(p))
    \/ Free(toggleSort("total_score"))

SpecPager == PagerInit /\ [][PagerNext]_allVars

\* With `pages` pages and current page `page`, the page buttons are
\* min(5, pages) consecutive numbers within 1..pages, `page` among them.
ButtonsOk(pages, page) ==
    LET buttons == PageButtonsOf(pages, page)
        count == IF pages < 5 THEN pages ELSE 5
    IN  /\ Cardinality(buttons) = count
        /\ \E lo \in 1..pages : buttons = lo..(lo + count - 1)
        /\ buttons \subseteq 1..pages
        /\ page \in buttons

\* A step from a state whose filtered and sorted list is `result`.
PagerStepOk(result) ==
    LET pages == TotalPagesOf(result)
    IN  /\ (PaginationShownFor(result) /\ currentPage \in 1..pages) =>
                ButtonsOk(pages, currentPage)
        /\ prevPageOn(result) => currentPage' >= 1
        /\ nextPageOn(result) => currentPage' <= pages

\* C28: whenever the pagination bar is shown and currentPage is one of the
\* pages, the page buttons are min(5, totalPages) distinct consecutive page
\* numbers within 1..totalPages that include currentPage; Previous goes one
\* page down and not below 1, Next one page up and not above totalPages.
C28_PageButtonsAndClamps == [][PagerStepOk(filteredContacts)]_vars

\* More than five pages and the current page in the middle: the buttons are
\* the two pages before it, the page itself and the two after it.
C28_Witness ==
    /\ PaginationShown
    /\ totalPages > 5
    /\ currentPage > 3
    /\ currentPage < totalPages - 2
    /\ PageButtons = (currentPage - 2)..(currentPage + 2)


-----------------------------------------------------------------------------
(* The server-filtered dashboard, src/unnamed/part_000: the filters are part
   of the select, and every filter change, Refresh and successful claim or
   unclaim fetches the contacts again. *)

VariantStatusFilters == {"all", "hot", "sql", "mql", "nurture"}

VariantAssigneeFilters == {"all", Diego, "unassigned"}

\* The rows the select returns for the filters sf and af, part_000:29-37:
\* .eq('status', sf), .is('assigned_to', null), .eq('assigned_to', af).
VariantPass(c, sf, af) ==
    /\ sf # "all" => c.status = sf
    /\ IF af = "unassigned" THEN c.assigned_to = None
       ELSE IF af # "all" THEN c.assigned_to = Some(af)
       ELSE TRUE

VariantSelect(rows, sf, af) ==
    LET Test(c) == VariantPass(c, sf, af) IN SelectSeq(rows, Test)

\* The state of the main dashboard, which the variant does not touch.
dashboardVars == <<allContacts, loading, filterVars, sortVars, currentPage,
                   selectedIds, fetches, writes, today, uiVars>>

\* fetchContacts of a render whose filters are sf and af, up to its await,
\* part_000:21-39: setLoading(true), then the select is sent.
VariantFetchContacts(v, sf, af) ==
    [v EXCEPT !.loading = TRUE, !.fetches = Append(@, VariantQuery(sf, af))]

\* The status select, part_000:127, and the effect on [statusFilter,
\* assigneeFilter], part_000:17-19.
VariantSetStatusFilter(s) ==
    /\ s # variant.statusFilter
    /\ variant' = VariantFetchContacts([variant EXCEPT !.statusFilter = s],
                                       s, variant.assigneeFilter)
    /\ UNCHANGED <<remote, dashboardVars>>

\* The assignee select, part_000:141, and the same effect.
VariantSetAssigneeFilter(a) ==
    /\ a # variant.assigneeFilter
    /\ variant' = VariantFetchContacts([variant EXCEPT !.assigneeFilter = a],
                                       variant.statusFilter, a)
    /\ UNCHANGED <<remote, dashboardVars>>

\* The Refresh button, part_000:111-116.
VariantRefresh ==
    /\ variant' = VariantFetchContacts(variant, variant.statusFilter,
                                       variant.assigneeFilter)
    /\ UNCHANGED <<remote, dashboardVars>>

\* The rows of the table, rendered when not loading, part_000:166-184.
VariantRows ==
    IF variant.loading THEN {}
    ELSE {variant.contacts[i] : i \in 1..Len(variant.contacts)}

\* contact.assigned_to is truthy, part_000:217.
VariantAssigned(c) == c.assigned_to # None /\ c.assigned_to[1] # ""

\* An update of assigned_to sent by a render whose filters are the current
\* ones; its fetchContacts is the one of that render.
VariantWrite(id, val) ==
    [st |-> "sent", id |-> id, val |-> val, status |-> variant.statusFilter,
     assignee |-> variant.assigneeFilter]

\* Claim, shown for a row without assignee (part_000:217-223): claimLead up
\* to its await, part_000:49-53.
VariantClaimLead(id) ==
    /\ \E c \in VariantRows : c.id = id /\ ~VariantAssigned(c)
    /\ variant' = [variant EXCEPT !.writes = Append(@, VariantWrite(id, Some(Diego)))]
    /\ UNCHANGED <<remote, dashboardVars>>

\* Unclaim, shown for a row with an assignee (part_000:224-230): unclaimLead
\* up to its await, part_000:62-66.
VariantUnclaimLead(id) ==
    /\ \E c \in VariantRows : c.id = id /\ VariantAssigned(c)
    /\ variant' = [variant EXCEPT !.writes = Append(@, VariantWrite(id, None))]
    /\ UNCHANGED <<remote, dashboardVars>>

\* The store answers update i: assigned_to of the contact is set, or an error.
VariantServerWrite(i, ok) ==
    /\ i \in 1..Len(variant.writes)
    /\ variant.writes[i].st = "sent"
    /\ variant' = [variant EXCEPT !.writes[i].st = IF ok THEN "ok" ELSE "err"]
    /\ remote' = IF ok
                 THEN [k \in 1..Len(remote) |->
                          IF remote[k].id = variant.writes[i].id
                          THEN [remote[k] EXCEPT !.assigned_to = variant.writes[i].val]
                          ELSE remote[k]]
                 ELSE remote
    /\ UNCHANGED dashboardVars

\* The await of update i resumes, part_000:55-59 and 68-72: fetchContacts()
\* unless error.
VariantWriteDone(i) ==
    /\ i \in 1..Len(variant.writes)
    /\ variant.writes[i].st # "sent"
    /\ LET w == variant.writes[i]
           rest == [variant EXCEPT !.writes = RemoveAt(@, i)]
       IN  variant' = IF w.st = "ok"
                      THEN VariantFetchContacts(rest, w.status, w.assignee)
                      ELSE rest
    /\ UNCHANGED <<remote, dashboardVars>>

\* The store answers select i: the rows that pass its filters, by total_score
\* descending, or an error.
VariantServerFetch(i, ok) ==
    /\ i \in 1..Len(variant.fetches)
    /\ variant.fetches[i].st = "sent"
    /\ LET q == variant.fetches[i]
       IN  variant' = [variant EXCEPT !.fetches[i] =
                          IF ok
                          THEN [q EXCEPT !.st = "ok",
                                         !.data = VariantSelect(remote, q.status, q.assignee)]
                          ELSE [q EXCEPT !.st = "err"]]
    /\ UNCHANGED <<remote, dashboardVars>>

\* The await of select i resumes, part_000:39-46: setContacts(data) unless
\* error; setLoading(false).
VariantFetchDone(i) ==
    /\ i \in 1..Len(variant.fetches)
    /\ variant.fetches[i].st # "sent"
    /\ LET q == variant.fetches[i]
       IN  variant' = [variant EXCEPT
                          !.contacts = IF q.st = "ok" THEN q.data ELSE @,
                          !.loading = FALSE,
                          !.failed = @ \/ q.st = "err",
                          !.fetches = RemoveAt(@, i)]
    /\ UNCHANGED <<remote, dashboardVars>>

(* SpecVariant: the server-filtered dashboard over the three contacts, with at
   most MaxVariantOps filter changes, refreshes, claims and unclaims, and the
   answers of the store handled in any order. *)

MaxVariantOps == 3

\* The most requests in flight that a step of the store or a resumption of a
\* handler is taken for.
MaxVariantFlight == MaxVariantOps + 1

VariantOp(A) == issued < MaxVariantOps /\ A /\ issued' = issued + 1

VariantStep(A) == A /\ issued' = issued

VariantInit == InitWith(SmallRows)

VariantNext ==
    \/ \E s \in VariantStatusFilters : VariantOp(VariantSetStatusFilter(s))
    \/ \E a \in VariantAssigneeFilters : VariantOp(VariantSetAssigneeFilter(a))
    \/ VariantOp(VariantRefresh)
    \/ \E id \in Ids(remote) : VariantOp(VariantClaimLead(id))
    \/ \E id \in Ids(remote) : VariantOp(VariantUnclaimLead(id))
    \/ \E i \in 1..MaxVariantFlight, ok \in BOOLEAN : VariantStep(VariantServerWrite(i, ok))
    \/ \E i \in 1..MaxVariantFlight : VariantStep(VariantWriteDone(i))
    \/ \E i \in 1..MaxVariantFlight, ok \in BOOLEAN : VariantStep(VariantServerFetch(i, ok))
    \/ \E i \in 1..MaxVariantFlight : VariantStep(VariantFetchDone(i))

SpecVariant == VariantInit /\ [][VariantNext]_allVars

\* C29: in the server-filtered dashboard, once no select and no update is
\* outstanding and no select has failed, every displayed contact satisfies the
\* current statusFilter and assigneeFilter.
C29_DisplayedMatchFilters ==
    (variant.fetches = <<>> /\ variant.writes = <<>> /\ ~variant.failed) =>
        \A i \in 1..Len(variant.contacts) :
            VariantPass(variant.contacts[i], variant.statusFilter,
                        variant.assigneeFilter)

=============================================================================
